---- MODULE Spec2Model ----
(***************************************************************************)
(* Playback / synchronisation core of the audiobook client.                *)
(*                                                                         *)
(*   SpecStore   the episode progress cache (episodeProgressStore.ts) and  *)
(*               the login / logout handlers that seed and clear it        *)
(*               (authStore.ts).                                           *)
(*   SpecPlayer  the Player component (Player.tsx) with the player store   *)
(*               (playerStore.ts), the media element and the server; the   *)
(*               wall clock stands still.                                  *)
(*   SpecSwitch  the player where three items are selected in a row,       *)
(*               every request succeeds and the user does not seek.        *)
(*   SpecSync    the same with two selections and the wall clock running,  *)
(*               for what is reported as listened time.                    *)
(***************************************************************************)
EXTENDS Integers, Sequences, FiniteSets, TLC

\* ------------------------------------------------------------------ bounds
\* Largest updatedAt / wall-clock value (epoch ms scaled down).
MaxStamp == 2
\* Longest mediaProgress list of a login response.
MaxMediaProgress == 2
\* Most items selected in a run of the player.
MaxLoads == 2
\* The same, where three items are selected in a row.
MaxSwitches == 3
\* Largest Date.now() of the player.
MaxClock == 2
\* Most doSync() requests in flight.
MaxPending == 1
\* Most listeners added to the element and not yet called.
MaxListeners == 2
\* Most top-level handleError() calls made on one PlayerErrorHandler.
MaxCalls == 2
\* The listened time reported for a session from which on no periodic sync fails.
MaxListened == 2

VARIABLES
  progress,   \* episodeProgressStore.progress: Record<episodeId, entry>
  authUser,   \* authStore.user (NoUser when logged out)
  now,        \* Date.now()
  hist,       \* history: the last operation applied to the cache, with the cache before it
  writer,     \* history: for each stored key, the user whose session wrote the stored entry
  maxMerged,  \* history: for each key, the largest updatedAt merged since the last clear
  leftBy,     \* history: the user of the previous session; had it entries cached at logout
  store,      \* usePlayerStore state
  refs,       \* Player refs: sessionRef, prevSessionRef, loadGenerationRef, isTransitioningTrackRef
  ui,         \* Player useState: error, isLoading, isSeeking
  audio,      \* the <audio> element behind audioRef, with its added event listeners
  loads,      \* the loadTrack() invocations in flight, each with its closure and where it is suspended
  started,    \* history: the number of items selected so far
  syncs,      \* doSync() invocations suspended at await absApi.updateProgress
  sessions,   \* server: the sessions started, with what was reported for each
  outbox,     \* the SyncProgress requests sent by the last step
  interval,   \* the setInterval of the periodic sync: the time since it was set or last fired
  debounce,   \* syncTimeoutRef, the setTimeout timers of syncProgress that are armed, and
              \* the last syncProgress call or timer callback of the step
  calc,       \* the input of the utility functions (a track list, a chapter list) and the
              \* last call made on it, with its result
  handler     \* a PlayerErrorHandler: retryCount, retryTimeouts and the handleError calls made

storeVars == <<progress, authUser, hist, writer, maxMerged, leftBy>>
playerVars == <<store, refs, ui, audio, loads, started, syncs, sessions, outbox, interval,
               debounce>>
trackVars == <<calc>>
handlerVars == <<handler>>
vars == <<storeVars, now, playerVars, trackVars, handlerVars>>

\* ------------------------------------------------------- progress cache
EpisodeIds == {"ep1", "ep2"}
Users == {"u1", "u2"}
NoUser == "none"
Stamps == 1..MaxStamp
\* progress, currentTime and duration are carried along like isFinished and left out.
EpisodeProgressEntry == [id : EpisodeIds, isFinished : BOOLEAN, updatedAt : Stamps]
EmptyRecord == [k \in {} |-> 0]
Max(a, b) == IF a >= b THEN a ELSE b
Min(a, b) == IF a <= b THEN a ELSE b

\* get().progress[episodeId] ?? null; null is the empty set
getProgress(p, episodeId) == IF episodeId \in DOMAIN p THEN {p[episodeId]} ELSE {}

\* Mutation: the spread of the stored entries dropped.
Put_Alone(p, episodeId, entry) == [k \in {episodeId} |-> entry]

\* { ...state.progress, [episodeId]: entry }
Put(p, episodeId, entry) ==
  [k \in DOMAIN p \cup {episodeId} |-> IF k = episodeId THEN entry ELSE p[k]]

\* Mutation: the staleness check dropped (every update overwrites).
updateProgress_NoCheck(p, episodeId, entry) == Put(p, episodeId, entry)

\* Mutation: equal timestamps rejected (> written as >=).
updateProgress_Strict(p, episodeId, entry) ==
  IF episodeId \in DOMAIN p /\ p[episodeId].updatedAt >= entry.updatedAt
  THEN p
  ELSE Put(p, episodeId, entry)

updateProgress(p, episodeId, entry) ==
  IF episodeId \in DOMAIN p /\ p[episodeId].updatedAt > entry.updatedAt
  THEN p
  ELSE Put(p, episodeId, entry)

\* Mutation: a batch entry with the stored timestamp is not applied (<= written as <).
RECURSIVE MergeLoop_Strict(_, _, _)
MergeLoop_Strict(merged, entries, todo) ==
  IF todo = {} THEN merged
  ELSE LET episodeId == CHOOSE k \in todo : TRUE
           entry == entries[episodeId]
           next == IF episodeId \notin DOMAIN merged
                      \/ merged[episodeId].updatedAt < entry.updatedAt
                   THEN Put(merged, episodeId, entry)
                   ELSE merged
       IN MergeLoop_Strict(next, entries, todo \ {episodeId})

mergeProgress_Strict(p, entries) == MergeLoop_Strict(p, entries, DOMAIN entries)

RECURSIVE MergeLoop(_, _, _)
MergeLoop(merged, entries, todo) ==
  IF todo = {} THEN merged
  ELSE LET episodeId == CHOOSE k \in todo : TRUE
           entry == entries[episodeId]
           next == IF episodeId \notin DOMAIN merged
                      \/ merged[episodeId].updatedAt <= entry.updatedAt
                   THEN Put(merged, episodeId, entry)
                   ELSE merged
       IN MergeLoop(next, entries, todo \ {episodeId})

mergeProgress(p, entries) == MergeLoop(p, entries, DOMAIN entries)

\* Mutation: logout leaves the cache as it is.
clear_Keep(p) == p

clear(p) == EmptyRecord

\* ------------------------------------------------------------ login data
\* One element of user.mediaProgress. episodeId "none": a book's progress (no
\* episodeId); lastUpdate 0: the field is missing (falsy).
MediaProgress == [episodeId : EpisodeIds \cup {"none"}, isFinished : BOOLEAN,
                  lastUpdate : 0..MaxStamp]
MediaProgressLists == UNION {[1..n -> MediaProgress] : n \in 0..MaxMediaProgress}

\* The loop of login that builds `entries` from user.mediaProgress.
RECURSIVE LoginEntries(_, _, _)
LoginEntries(mps, i, entries) ==
  IF i > Len(mps) THEN entries
  ELSE LET mp == mps[i]
           e == [id |-> mp.episodeId,
                 isFinished |-> mp.isFinished,
                 updatedAt |-> IF mp.lastUpdate # 0 THEN mp.lastUpdate ELSE now]
       IN LoginEntries(mps, i + 1,
                       IF mp.episodeId # "none" THEN Put(entries, mp.episodeId, e) ELSE entries)

\* ------------------------------------------------------------- history
Restrict(f, S) == [k \in S \cap DOMAIN f |-> f[k]]
Written(p, q, w, u) ==
  [k \in DOMAIN q |-> IF k \in DOMAIN p /\ p[k] = q[k] THEN w[k] ELSE u]
Seen(m, entries) ==
  [k \in DOMAIN m \cup DOMAIN entries |->
     IF k \notin DOMAIN entries THEN m[k]
     ELSE IF k \notin DOMAIN m THEN entries[k].updatedAt
     ELSE Max(m[k], entries[k].updatedAt)]

\* ------------------------------------------------------------- actions
InitStore ==
  /\ progress = EmptyRecord
  /\ authUser = NoUser
  /\ now = 1
  /\ hist = [op |-> "none"]
  /\ writer = EmptyRecord
  /\ maxMerged = EmptyRecord
  /\ leftBy = [user |-> NoUser, cached |-> FALSE]

\* The login form is only shown to a logged-out user (PrivateRoute / handleLogout).
Login ==
  /\ authUser = NoUser
  /\ \E u \in Users, hasMp \in BOOLEAN, mps \in MediaProgressLists :
       LET entries == LoginEntries(mps, 1, EmptyRecord)
           q == IF hasMp THEN mergeProgress(progress, entries) ELSE progress
       IN /\ authUser' = u
          /\ progress' = q
          /\ writer' = Written(progress, q, writer, u)
          /\ maxMerged' = IF hasMp THEN Seen(maxMerged, entries) ELSE maxMerged
          /\ hist' = IF hasMp THEN [op |-> "merge", pre |-> progress, entries |-> entries]
                     ELSE [op |-> "none"]
  /\ UNCHANGED <<trackVars, handlerVars, now, leftBy, playerVars>>

Logout ==
  /\ authUser # NoUser
  /\ authUser' = NoUser
  /\ progress' = clear(progress)
  /\ writer' = Restrict(writer, DOMAIN progress')
  /\ maxMerged' = Restrict(maxMerged, DOMAIN progress')
  /\ hist' = [op |-> "clear"]
  /\ leftBy' = [user |-> authUser, cached |-> DOMAIN progress # {}]
  /\ UNCHANGED <<trackVars, handlerVars, now, playerVars>>

\* A live push event updates one entry (server-stamped).
PushProgress ==
  /\ authUser # NoUser
  /\ \E entry \in EpisodeProgressEntry :
       LET q == updateProgress(progress, entry.id, entry)
       IN /\ progress' = q
          /\ writer' = Written(progress, q, writer, authUser)
          /\ maxMerged' = Seen(maxMerged, Put(EmptyRecord, entry.id, entry))
          /\ hist' = [op |-> "update", pre |-> progress, key |-> entry.id, entry |-> entry]
  /\ UNCHANGED <<trackVars, handlerVars, authUser, now, leftBy, playerVars>>

\* A live-session event updates one entry with updatedAt synthesised as now.
PushSession ==
  /\ authUser # NoUser
  /\ \E k \in EpisodeIds, fin \in BOOLEAN :
       LET entry == [id |-> k, isFinished |-> fin, updatedAt |-> now]
           q == updateProgress(progress, k, entry)
       IN /\ progress' = q
          /\ writer' = Written(progress, q, writer, authUser)
          /\ maxMerged' = Seen(maxMerged, Put(EmptyRecord, k, entry))
          /\ hist' = [op |-> "update", pre |-> progress, key |-> k, entry |-> entry]
  /\ UNCHANGED <<trackVars, handlerVars, authUser, now, leftBy, playerVars>>

\* The bulk "all progress" fetch merges a batch.
FetchAll ==
  /\ authUser # NoUser
  /\ \E ks \in SUBSET EpisodeIds :
       \E entries \in [ks -> EpisodeProgressEntry] :
         /\ \A k \in ks : entries[k].id = k
         /\ LET q == mergeProgress(progress, entries)
            IN /\ progress' = q
               /\ writer' = Written(progress, q, writer, authUser)
               /\ maxMerged' = Seen(maxMerged, entries)
               /\ hist' = [op |-> "merge", pre |-> progress, entries |-> entries]
  /\ UNCHANGED <<trackVars, handlerVars, authUser, now, leftBy, playerVars>>

TickStore ==
  /\ now < MaxStamp
  /\ now' = now + 1
  /\ UNCHANGED <<trackVars, handlerVars, storeVars, playerVars>>

NextStore ==
  \/ Login
  \/ Logout
  \/ PushProgress
  \/ PushSession
  \/ FetchAll
  \/ TickStore


\* ================================================================ player
\* ------------------------------------------------- the server's library
Null == [null |-> TRUE]
NoItem == "none"
NoEpisode == "none"
NoSession == 0
NoError == "none"
\* P and B are multi-file books, A is a podcast whose episode ep1 is one file,
\* H is a book the server plays as one stream: its response has no audioTracks.
Books == {"P"}
Shelf == {"P", "B"}
Podcasts == {"A"}
EpisodeOf(item) == "ep1"
TrackDurations(item) ==
  CASE item = "P" -> <<2, 2>>
    [] item = "A" -> <<2>>
    [] item = "H" -> <<>>
    [] OTHER -> <<1, 2>>

RECURSIVE SumTo(_, _)
SumTo(ds, n) == IF n = 0 THEN 0 ELSE SumTo(ds, n - 1) + ds[n]

\* response.data.audioTracks of the play endpoint: contiguous, ordered.
AudioTracksOf(item) ==
  LET ds == TrackDurations(item)
  IN [i \in 1..Len(ds) |->
        [index |-> i - 1, duration |-> ds[i], startOffset |-> SumTo(ds, i - 1),
         contentUrl |-> <<item, i - 1>>]]
\* response.data.duration
DurationOf(item) ==
  IF TrackDurations(item) = <<>> THEN 2
  ELSE SumTo(TrackDurations(item), Len(TrackDurations(item)))
\* streamUrl: the first audio track, else the stream of the session.
StreamOf(item) ==
  IF AudioTracksOf(item) # <<>> THEN AudioTracksOf(item)[1]
  ELSE [contentUrl |-> <<item, 0>>, duration |-> DurationOf(item)]
ChaptersOf(item) == <<[id |-> 0, start |-> 0, end |-> DurationOf(item), title |-> item]>>
\* response.data.currentTime: the position the server has saved for the item.
SavedTimes(item) == {0, DurationOf(item) - 1}

\* ------------------------------------------------------ Player.tsx helpers
RECURSIVE FindFrom(_, _, _)
FindFrom(tracks, globalTime, i) ==
  IF i > Len(tracks)
  THEN [trackIndex |-> Len(tracks) - 1, trackTime |-> tracks[Len(tracks)].duration]
  ELSE IF globalTime >= tracks[i].startOffset
          /\ globalTime < tracks[i].startOffset + tracks[i].duration
       THEN [trackIndex |-> i - 1, trackTime |-> globalTime - tracks[i].startOffset]
       ELSE FindFrom(tracks, globalTime, i + 1)

findTrackForGlobalTime(tracks, globalTime) ==
  IF Len(tracks) = 0 THEN [trackIndex |-> 0, trackTime |-> globalTime]
  ELSE FindFrom(tracks, globalTime, 1)

trackTimeToGlobal(tracks, trackIndex, trackTime) ==
  IF Len(tracks) = 0 \/ trackIndex < 0 \/ trackIndex >= Len(tracks) THEN trackTime
  ELSE tracks[trackIndex + 1].startOffset + trackTime

isMultiTrack(tracks) == Len(tracks) > 1

\* ------------------------------------------------------ AudioTrackManager
\* Reading a property of tracks[-1], which is undefined.
TypeError == [threw |-> "TypeError"]

\* getGlobalTime: an invalid index is logged and answered with 0.
getGlobalTime(tracks, trackIndex, trackTime) ==
  IF trackIndex < 0 \/ trackIndex >= Len(tracks) THEN 0
  ELSE tracks[trackIndex + 1].startOffset + trackTime

\* The while loop of findTrackForTime and what follows it.
RECURSIVE BinarySearch(_, _, _, _)
BinarySearch(tracks, globalTime, left, right) ==
  IF left > right
  THEN IF Len(tracks) = 0 THEN TypeError
       ELSE [trackIndex |-> Len(tracks) - 1, trackTime |-> tracks[Len(tracks)].duration]
  ELSE LET mid == (left + right) \div 2
           track == tracks[mid + 1]
           trackEnd == track.startOffset + track.duration
       IN IF globalTime >= track.startOffset /\ globalTime < trackEnd
          THEN [trackIndex |-> mid, trackTime |-> globalTime - track.startOffset]
          ELSE IF globalTime < track.startOffset
               THEN BinarySearch(tracks, globalTime, left, mid - 1)
               ELSE BinarySearch(tracks, globalTime, mid + 1, right)

\* Mutation: the global time is returned as the track-relative time.
findTrackForTime_GlobalTime(tracks, globalTime) ==
  IF globalTime <= 0 THEN [trackIndex |-> 0, trackTime |-> 0]
  ELSE LET found == BinarySearch(tracks, globalTime, 0, Len(tracks) - 1)
       IN IF found = TypeError THEN found
          ELSE [trackIndex |-> found.trackIndex, trackTime |-> globalTime]

findTrackForTime(tracks, globalTime) ==
  IF globalTime <= 0 THEN [trackIndex |-> 0, trackTime |-> 0]
  ELSE BinarySearch(tracks, globalTime, 0, Len(tracks) - 1)

\* getTotalDuration
getTotalDuration(tracks) ==
  IF Len(tracks) = 0 THEN 0
  ELSE tracks[Len(tracks)].startOffset + tracks[Len(tracks)].duration

\* --------------------------------------- the two track-index implementations
\* Track lists as the server delivers them: contiguous, ordered, from offset 0.
MaxTracks == 3
MaxTrackDuration == 2

DurationLists == UNION {[1..n -> 1..MaxTrackDuration] : n \in 0..MaxTracks}

TracksOf(ds) ==
  [i \in 1..Len(ds) |->
     [index |-> i - 1, duration |-> ds[i], startOffset |-> SumTo(ds, i - 1),
      contentUrl |-> <<"T", i - 1>>]]

TrackLists == {TracksOf(ds) : ds \in DurationLists}
GlobalTimes == -1 .. (MaxTracks * MaxTrackDuration + 1)
TrackIndexes == -1 .. MaxTracks
TrackTimes == 0 .. MaxTrackDuration

NoCall == [op |-> "none"]

\* new AudioTrackManager(tracks, ...).findTrackForTime(globalTime)
CallFindTrackForTime ==
  /\ \E globalTime \in GlobalTimes :
       calc' = [calc EXCEPT !.call =
                  [op |-> "locate", impl |-> "AudioTrackManager", globalTime |-> globalTime,
                   result |-> findTrackForTime(calc.tracks, globalTime)]]
  /\ UNCHANGED <<storeVars, now, playerVars, handlerVars>>

\* new AudioTrackManager(tracks, ...).getGlobalTime(trackIndex, trackTime)
CallGetGlobalTime ==
  /\ \E trackIndex \in TrackIndexes, trackTime \in TrackTimes :
       calc' = [calc EXCEPT !.call =
                  [op |-> "toGlobal", impl |-> "AudioTrackManager",
                   trackIndex |-> trackIndex, trackTime |-> trackTime,
                   result |-> getGlobalTime(calc.tracks, trackIndex, trackTime)]]
  /\ UNCHANGED <<storeVars, now, playerVars, handlerVars>>

\* findTrackForGlobalTime(tracks, globalTime) of Player.tsx
CallFindTrackForGlobalTime ==
  /\ \E globalTime \in GlobalTimes :
       calc' = [calc EXCEPT !.call =
                  [op |-> "locate", impl |-> "Player", globalTime |-> globalTime,
                   result |-> findTrackForGlobalTime(calc.tracks, globalTime)]]
  /\ UNCHANGED <<storeVars, now, playerVars, handlerVars>>

\* trackTimeToGlobal(tracks, trackIndex, trackTime) of Player.tsx
CallTrackTimeToGlobal ==
  /\ \E trackIndex \in TrackIndexes, trackTime \in TrackTimes :
       calc' = [calc EXCEPT !.call =
                  [op |-> "toGlobal", impl |-> "Player",
                   trackIndex |-> trackIndex, trackTime |-> trackTime,
                   result |-> trackTimeToGlobal(calc.tracks, trackIndex, trackTime)]]
  /\ UNCHANGED <<storeVars, now, playerVars, handlerVars>>

\* ------------------------------------------------------------ ChapterUtils
\* Times are counted in steps of 0.05 s; numbers that need not be whole
\* (the progress of a chapter) are fractions num / den with den > 0.
Frac(num, den) == [num |-> num, den |-> den]
FracEq(a, b) == a.num * b.den = b.num * a.den
FracLeq(a, b) == a.num * b.den <= b.num * a.den
FracMax(a, b) == IF FracLeq(a, b) THEN b ELSE a
FracMin(a, b) == IF FracLeq(a, b) THEN a ELSE b

Undefined == [undefined |-> TRUE]

\* Array.prototype.findIndex for the track a chapter starts in.
RECURSIVE findIndexOfTrack(_, _, _)
findIndexOfTrack(audioTracks, start, i) ==
  IF i > Len(audioTracks) THEN -1
  ELSE IF start >= audioTracks[i].startOffset
          /\ start < audioTracks[i].startOffset + audioTracks[i].duration
       THEN i - 1
       ELSE findIndexOfTrack(audioTracks, start, i + 1)

\* Mutation: a chapter counts as completed only strictly above 95 %.
enhanceChapter_Above(chapter, currentTime, audioTracks) ==
  LET duration == chapter.end - chapter.start
      isActive == currentTime >= chapter.start /\ currentTime < chapter.end
      chapterProgress == IF isActive THEN Frac(currentTime - chapter.start, duration)
                         ELSE IF currentTime > chapter.end THEN Frac(1, 1)
                         ELSE Frac(0, 1)
      trackIndex == IF Len(audioTracks) > 1
                    THEN findIndexOfTrack(audioTracks, chapter.start, 1)
                    ELSE Undefined
  IN [id |-> chapter.id, start |-> chapter.start, end |-> chapter.end,
      title |-> chapter.title, duration |-> duration,
      progress |-> FracMax(Frac(0, 1), FracMin(Frac(1, 1), chapterProgress)),
      isCompleted |-> ~FracLeq(chapterProgress, Frac(95, 100)),
      trackIndex |-> trackIndex]

\* The callback of chapters.map in enhanceChapters.
enhanceChapter(chapter, currentTime, audioTracks) ==
  LET duration == chapter.end - chapter.start
      isActive == currentTime >= chapter.start /\ currentTime < chapter.end
      chapterProgress == IF isActive THEN Frac(currentTime - chapter.start, duration)
                         ELSE IF currentTime > chapter.end THEN Frac(1, 1)
                         ELSE Frac(0, 1)
      trackIndex == IF Len(audioTracks) > 1
                    THEN findIndexOfTrack(audioTracks, chapter.start, 1)
                    ELSE Undefined
  IN [id |-> chapter.id, start |-> chapter.start, end |-> chapter.end,
      title |-> chapter.title, duration |-> duration,
      progress |-> FracMax(Frac(0, 1), FracMin(Frac(1, 1), chapterProgress)),
      isCompleted |-> FracLeq(Frac(95, 100), chapterProgress),
      trackIndex |-> trackIndex]

enhanceChapters(chapters, currentTime, audioTracks) ==
  [i \in 1..Len(chapters) |-> enhanceChapter(chapters[i], currentTime, audioTracks)]

\* bufferTime = 0.1 s
BufferTime == 2

\* Mutation: no buffer before the end of the chapter.
validateChapterSeek_NoBuffer(chapter, requested) ==
  IF requested = <<>> THEN chapter.start
  ELSE Max(chapter.start, Min(chapter.end, requested[1]))

\* `requested` is the list of optional arguments: <<>> or <<requestedTime>>.
validateChapterSeek(chapter, requested) ==
  IF requested = <<>> THEN chapter.start
  ELSE Max(chapter.start, Min(chapter.end - BufferTime, requested[1]))

\* Array.prototype.find / findIndex: the first element that matches.
\* ks: the positions of the elements that match.
FirstIndex(ks) ==
  IF ks = {} THEN -1 ELSE (CHOOSE k \in ks : \A j \in ks : k <= j) - 1

findChapterAtTime(chapters, time) ==
  LET k == FirstIndex({i \in DOMAIN chapters :
                           time >= chapters[i].start /\ time < chapters[i].end})
  IN IF k = -1 THEN Null ELSE chapters[k + 1]

\* Mutation: outside every chapter there is no adjacent chapter.
getAdjacentChapter_NoWrap(chapters, currentTime, direction) ==
  LET currentChapter == findChapterAtTime(chapters, currentTime)
  IN IF currentChapter = Null THEN Null
     ELSE LET currentIndex == FirstIndex({i \in DOMAIN chapters :
                                          chapters[i].id = currentChapter.id})
              targetIndex == IF direction = "next" THEN currentIndex + 1 ELSE currentIndex - 1
          IN IF targetIndex >= 0 /\ targetIndex < Len(chapters)
             THEN chapters[targetIndex + 1]
             ELSE Null

getAdjacentChapter(chapters, currentTime, direction) ==
  LET currentChapter == findChapterAtTime(chapters, currentTime)
  IN IF currentChapter = Null
     THEN IF Len(chapters) = 0 THEN Undefined
          ELSE IF direction = "next" THEN chapters[1] ELSE chapters[Len(chapters)]
     ELSE LET currentIndex == FirstIndex({i \in DOMAIN chapters :
                                          chapters[i].id = currentChapter.id})
              targetIndex == IF direction = "next" THEN currentIndex + 1 ELSE currentIndex - 1
          IN IF targetIndex >= 0 /\ targetIndex < Len(chapters)
             THEN chapters[targetIndex + 1]
             ELSE Null

\* Chapter lists as the server delivers them: ordered, not overlapping, each
\* with start < end, ids in order; gaps between chapters are allowed.
MaxChapters == 2
MaxChapterTime == 4

Spans == {sp \in (0..MaxChapterTime) \X (0..MaxChapterTime) : sp[1] < sp[2]}

SpanLists ==
  UNION {{sps \in [1..n -> Spans] : \A i \in 1..(n - 1) : sps[i][2] <= sps[i + 1][1]}
         : n \in 0..MaxChapters}

ChaptersFrom(sps) ==
  [i \in 1..Len(sps) |-> [id |-> i - 1, start |-> sps[i][1], end |-> sps[i][2], title |-> "c"]]

ChapterLists == {ChaptersFrom(sps) : sps \in SpanLists}
ChapterTimes == -1 .. (MaxChapterTime + 1)

CallEnhanceChapters ==
  /\ \E currentTime \in ChapterTimes, audioTracks \in {<<>>, AudioTracksOf("P")} :
       calc' = [calc EXCEPT !.call =
                  [op |-> "enhanceChapters", currentTime |-> currentTime,
                   result |-> enhanceChapters(calc.chapters, currentTime, audioTracks)]]
  /\ UNCHANGED <<storeVars, now, playerVars, handlerVars>>

CallValidateChapterSeek ==
  /\ \E k \in DOMAIN calc.chapters,
        requested \in {<<>>} \cup {<<t>> : t \in ChapterTimes} :
       calc' = [calc EXCEPT !.call =
                  [op |-> "validateChapterSeek", chapter |-> k, requested |-> requested,
                   result |-> validateChapterSeek(calc.chapters[k], requested)]]
  /\ UNCHANGED <<storeVars, now, playerVars, handlerVars>>

CallFindChapterAtTime ==
  /\ \E time \in ChapterTimes :
       calc' = [calc EXCEPT !.call =
                  [op |-> "findChapterAtTime", time |-> time,
                   result |-> findChapterAtTime(calc.chapters, time)]]
  /\ UNCHANGED <<storeVars, now, playerVars, handlerVars>>

CallGetAdjacentChapter ==
  /\ \E currentTime \in ChapterTimes, direction \in {"next", "previous"} :
       calc' = [calc EXCEPT !.call =
                  [op |-> "getAdjacentChapter", currentTime |-> currentTime,
                   direction |-> direction,
                   result |-> getAdjacentChapter(calc.chapters, currentTime, direction)]]
  /\ UNCHANGED <<storeVars, now, playerVars, handlerVars>>


\* ------------------------------------------------------ PlayerErrorHandler
\* DEFAULT_RETRY_CONFIG
MaxRetries == 3
InitialDelay == 1000
MaxDelay == 10000
BackoffMultiplier == 2

\* The PlayerErrors handled.  retryable is a field of the error, set by
\* whoever builds it; context is <<>> when the error has none, else
\* <<the context object>>.
PlayerErrors ==
  {[type |-> "playback_error", retryable |-> TRUE, context |-> <<>>],
   [type |-> "playback_error", retryable |-> FALSE, context |-> <<>>],
   [type |-> "hls_manifest_error", retryable |-> TRUE, context |-> <<>>]}

\* `${error.type}-${error.context?.trackIndex || 'main'}`
errorKey(error) ==
  error.type \o "-" \o
    (IF error.context = <<>> \/ error.context[1].trackIndex = 0
     THEN "main"
     ELSE ToString(error.context[1].trackIndex))

\* Map.set, Map.delete
MapSet(m, k, v) == [x \in DOMAIN m \cup {k} |-> IF x = k THEN v ELSE m[x]]
MapDelete(m, k) == [x \in DOMAIN m \ {k} |-> m[x]]

RECURSIVE Pow(_, _)
Pow(b, n) == IF n = 0 THEN 1 ELSE b * Pow(b, n - 1)

\* A timer is named by the call whose promise it settles and the number of
\* timers of that call that fired before it.  clearTimeout of a timer that
\* has fired or was cleared does nothing; the promise of a cleared timer is
\* never settled.
clearTimeout(h, timeout) ==
  LET call == h.calls[timeout.call]
  IN IF call.status = "scheduled" /\ call.timer.n = timeout.n
     THEN [h EXCEPT !.calls[timeout.call].status = "cancelled"]
     ELSE h

\* cleanup(errorKey)
cleanupErrorKey(h, key) ==
  LET h1 == [h EXCEPT !.retryCount = MapDelete(@, key)]
  IN IF key \in DOMAIN h1.retryTimeouts
     THEN [clearTimeout(h1, h1.retryTimeouts[key])
             EXCEPT !.retryTimeouts = MapDelete(@, key)]
     ELSE h1

\* cleanup()
cleanupAll(h) ==
  [h EXCEPT
     !.retryCount = [k \in {} |-> 0],
     !.retryTimeouts = [k \in {} |-> 0],
     !.calls = [c \in DOMAIN h.calls |->
                  IF h.calls[c].status = "scheduled"
                     /\ \E k \in DOMAIN h.retryTimeouts :
                          h.retryTimeouts[k] = [call |-> c, n |-> h.calls[c].timer.n]
                  THEN [h.calls[c] EXCEPT !.status = "cancelled"]
                  ELSE h.calls[c]]]

NoTimer == [key |-> "", count |-> 0, delay |-> 0, n |-> -1]

\* throw error: the promise of call c rejects with it
Throw(h, c, error) ==
  [h EXCEPT !.calls[c].status = "rejected", !.calls[c].thrown = <<error>>,
            !.calls[c].timer = NoTimer]

\* Mutation: every error is retried.
handleError_RetryAll(h0, c, error) ==
  LET key == errorKey(error)
      h1 == [h0 EXCEPT !.calls[c].error = error,
                       !.last = [op |-> "handleError", call |-> c, error |-> error]]
      h2 == IF key \in DOMAIN h1.retryTimeouts
            THEN clearTimeout(h1, h1.retryTimeouts[key])
            ELSE h1
      currentRetryCount == IF key \in DOMAIN h2.retryCount THEN h2.retryCount[key] ELSE 0
      delay == Min(InitialDelay * Pow(BackoffMultiplier, currentRetryCount), MaxDelay)
      n == h2.calls[c].invoked
  IN IF currentRetryCount >= MaxRetries THEN Throw(cleanupErrorKey(h2, key), c, error)
     ELSE [h2 EXCEPT
             !.calls[c].status = "scheduled",
             !.calls[c].timer = [key |-> key, count |-> currentRetryCount,
                                 delay |-> delay, n |-> n],
             !.retryTimeouts = MapSet(@, key, [call |-> c, n |-> n])]

\* handleError(error, retryFn) up to its return, run for call c: a top-level
\* call, or the recursive one whose outcome settles the promise of call c.
handleError(h0, c, error) ==
  LET key == errorKey(error)
      h1 == [h0 EXCEPT !.calls[c].error = error,
                       !.last = [op |-> "handleError", call |-> c, error |-> error]]
      h2 == IF key \in DOMAIN h1.retryTimeouts
            THEN clearTimeout(h1, h1.retryTimeouts[key])
            ELSE h1
      currentRetryCount == IF key \in DOMAIN h2.retryCount THEN h2.retryCount[key] ELSE 0
      delay == Min(InitialDelay * Pow(BackoffMultiplier, currentRetryCount), MaxDelay)
      n == h2.calls[c].invoked
  IN IF ~error.retryable THEN Throw(cleanupErrorKey(h2, key), c, error)
     ELSE IF currentRetryCount >= MaxRetries THEN Throw(cleanupErrorKey(h2, key), c, error)
     ELSE [h2 EXCEPT
             !.calls[c].status = "scheduled",
             !.calls[c].timer = [key |-> key, count |-> currentRetryCount,
                                 delay |-> delay, n |-> n],
             !.retryTimeouts = MapSet(@, key, [call |-> c, n |-> n])]

InitHandler ==
  handler = [retryCount |-> [k \in {} |-> 0],
             retryTimeouts |-> [k \in {} |-> 0],
             calls |-> <<>>,
             last |-> [op |-> "none"]]

\* handleError(error, retryFn) is called for a failed operation.  fresh: no
\* retry counter is stored when the call starts.
CallHandleError ==
  /\ Len(handler.calls) < MaxCalls
  /\ \E error \in PlayerErrors :
       LET c == Len(handler.calls) + 1
           call == [error |-> error,
                    fresh |-> DOMAIN handler.retryCount = {},
                    status |-> "called", thrown |-> <<>>, timer |-> NoTimer,
                    invoked |-> 0]
       IN handler' = handleError([handler EXCEPT !.calls = Append(@, call)], c, error)
  /\ UNCHANGED <<storeVars, now, playerVars, trackVars>>

\* The setTimeout callback of call c runs up to `await retryFn()`.
TimerFires ==
  /\ \E c \in DOMAIN handler.calls :
       /\ handler.calls[c].status = "scheduled"
       /\ handler' = [handler EXCEPT
            !.retryCount = MapSet(@, handler.calls[c].timer.key,
                                  handler.calls[c].timer.count + 1),
            !.calls[c].status = "retrying",
            !.calls[c].invoked = @ + 1,
            !.last = [op |-> "retryFn", call |-> c]]
  /\ UNCHANGED <<storeVars, now, playerVars, trackVars>>

\* retryFn() resolves: cleanup(errorKey); resolve()
RetrySucceeds ==
  /\ \E c \in DOMAIN handler.calls :
       /\ handler.calls[c].status = "retrying"
       /\ handler' = [cleanupErrorKey(handler, handler.calls[c].timer.key) EXCEPT
            !.calls[c].status = "resolved",
            !.calls[c].timer = NoTimer,
            !.last = [op |-> "resolved", call |-> c]]
  /\ UNCHANGED <<storeVars, now, playerVars, trackVars>>

\* retryFn() rejects with retryError: the error is handled recursively and
\* the outcome of that call settles the promise.
RetryFails ==
  /\ \E c \in DOMAIN handler.calls, retryError \in PlayerErrors :
       /\ handler.calls[c].status = "retrying"
       /\ handler' = handleError(handler, c, retryError)
  /\ UNCHANGED <<storeVars, now, playerVars, trackVars>>

\* cleanup() with no key
CleanupAll ==
  /\ handler.calls # <<>>
  /\ handler' = [cleanupAll(handler) EXCEPT !.last = [op |-> "cleanup"]]
  /\ UNCHANGED <<storeVars, now, playerVars, trackVars>>

\* ------------------------------------------------------- the world record
\* The handlers are operators from world to world; an action commits the world
\* its handler returns.
World ==
  [store |-> store, refs |-> refs, ui |-> ui, audio |-> audio, loads |-> loads,
   started |-> started, syncs |-> syncs, sessions |-> sessions, outbox |-> <<>>,
   interval |-> interval, debounce |-> [debounce EXCEPT !.last = NoCall]]

Commit(w) ==
  /\ store' = w.store
  /\ refs' = w.refs
  /\ ui' = w.ui
  /\ audio' = w.audio
  /\ loads' = w.loads
  /\ started' = w.started
  /\ syncs' = w.syncs
  /\ sessions' = w.sessions
  /\ outbox' = w.outbox
  /\ interval' = w.interval
  /\ debounce' = w.debounce

\* ---------------------------------------------------- the media element
\* Setting src / load(): the media element load algorithm resets the element.
SetSrc(a, track) ==
  [a EXCEPT !.src = [url |-> track.contentUrl, duration |-> track.duration],
            !.pos = 0, !.readyState = 0, !.paused = TRUE, !.ended = FALSE,
            !.failed = FALSE]

\* audio.currentTime = t
SetPos(a, t) ==
  [a EXCEPT !.pos = IF a.src = Null THEN 0 ELSE Min(t, a.src.duration),
            !.ended = FALSE]

\* audio.play(): playback that has ended restarts from the beginning.
Play(a) ==
  [a EXCEPT !.paused = FALSE,
            !.pos = IF a.src # Null /\ a.pos = a.src.duration THEN 0 ELSE @,
            !.ended = FALSE]

\* --------------------------------------------------------- absApi
\* absApi.updateProgress: POST /session/:id/sync. `how` records what the time
\* was computed from.
Send(w, kind, itemId, sessionId, currentTime, timeListened, episodeId, how) ==
  [w EXCEPT
     !.outbox = Append(@, [kind |-> kind, itemId |-> itemId, sessionId |-> sessionId,
                           currentTime |-> currentTime, timeListened |-> timeListened,
                           episodeId |-> episodeId, how |-> how]),
     !.sessions[sessionId] =
        [@ EXCEPT !.listened = @ + timeListened,
                  !.finals = @ + (IF kind \in {"cleanup", "final"} THEN 1 ELSE 0)]]

\* --------------------------------------------------- getGlobalTimeFromAudio
\* Mutation: the transition guard removed.
getGlobalTimeFromAudio_NoGuard(w) ==
  IF ~w.audio.mounted THEN 0
  ELSE IF isMultiTrack(w.store.audioTracks)
       THEN trackTimeToGlobal(w.store.audioTracks, w.store.currentTrackIndex, w.audio.pos)
       ELSE w.audio.pos

getGlobalTimeFromAudio(w) ==
  IF ~w.audio.mounted THEN 0
  ELSE IF w.refs.isTransitioning THEN w.store.currentTime
  ELSE IF isMultiTrack(w.store.audioTracks)
       THEN trackTimeToGlobal(w.store.audioTracks, w.store.currentTrackIndex, w.audio.pos)
       ELSE w.audio.pos

\* ------------------------------------------------- play / pause effect
handlePlayPause(w) ==
  IF ~w.audio.mounted \/ w.audio.readyState < 3 THEN w
  ELSE IF w.store.isPlaying /\ w.audio.paused THEN [w EXCEPT !.audio = Play(@)]
  ELSE IF ~w.store.isPlaying /\ ~w.audio.paused
  THEN LET w1 == [w EXCEPT !.audio.paused = TRUE]
       IN IF w1.refs.sessionRef # Null /\ w1.audio.pos > 0
          THEN LET tracks == w1.store.audioTracks
                   multi == isMultiTrack(tracks) /\ w1.store.currentTrackIndex >= 0
                   syncTime == IF multi
                               THEN trackTimeToGlobal(tracks, w1.store.currentTrackIndex, w1.audio.pos)
                               ELSE w1.audio.pos
                   w2 == Send(w1, "pause", w1.store.currentItem, w1.refs.sessionRef.id,
                              syncTime, now - w1.refs.sessionRef.lastSync,
                              w1.store.currentEpisode,
                              [tracks |-> IF multi THEN tracks ELSE <<>>,
                               idx |-> w1.store.currentTrackIndex, pos |-> w1.audio.pos])
               IN [w2 EXCEPT !.refs.sessionRef.lastSync = now,
                             !.refs.prevSessionRef =
                                IF @ = Null THEN @ ELSE [@ EXCEPT !.lastSync = now],
                             !.store.lastSyncTime = now]
          ELSE w1
  ELSE w

\* The effect runs again when one of its dependencies changed in the render:
\* isPlaying, currentItem, currentEpisode, audioTracks, currentTrackIndex. The
\* periodic-sync effect depends on the same values (through syncProgress and
\* getGlobalTimeFromAudio): it clears its interval and sets a new one.
Effects(before, w, newObjects) ==
  IF \/ newObjects
     \/ before.store.isPlaying # w.store.isPlaying
     \/ before.store.currentTrackIndex # w.store.currentTrackIndex
  THEN [handlePlayPause(w) EXCEPT !.interval = 0]
  ELSE w

\* ------------------------------------------------ loadAudioTrackInternal
\* What follows `await loadAudioTrackInternal(...)` in the caller.
Resume(w, cont) ==
  CASE cont.kind = "load" ->
         [w EXCEPT !.store.currentTime = cont.time, !.ui.isLoading = FALSE,
                   !.loads = {l \in @ : l.id # cont.load}]
    [] cont.kind = "seek" ->
         [w EXCEPT !.ui.isSeeking = FALSE, !.store.currentTime = cont.time]
    [] OTHER -> w

loadAudioTrackInternal(w, trackIndex, seekToTime, tracks, cont) ==
  IF Len(tracks) = 0 \/ ~w.audio.mounted \/ trackIndex < 0 \/ trackIndex >= Len(tracks)
  THEN Resume(w, cont)
  ELSE LET a1 == SetSrc(w.audio, tracks[trackIndex + 1])
           ls1 == IF seekToTime >= 0
                  THEN Append(a1.listeners,
                              [ev |-> "loadedmetadata", kind |-> "handleMeta", time |-> seekToTime])
                  ELSE a1.listeners
           ls2 == Append(ls1, [ev |-> "canplay", kind |-> "handleCanPlay", cont |-> cont])
       IN [w EXCEPT
             !.refs.isTransitioning = TRUE,
             !.sessions = IF w.store.sessionId # NoSession
                          THEN [@ EXCEPT ![w.store.sessionId].track = trackIndex]
                          ELSE @,
             !.store.currentTrackIndex = trackIndex,
             !.refs.prevSessionRef =
                IF @ = Null THEN @ ELSE [@ EXCEPT !.currentTrackIndex = trackIndex],
             !.audio = [a1 EXCEPT !.listeners = ls2, !.switching = TRUE]]

\* ------------------------------------- listeners added with addEventListener
\* All of them are one-shot: `once: true`, or they remove themselves.
RunListener(w, l) ==
  CASE l.kind = "handleMeta" -> [w EXCEPT !.audio = SetPos(@, l.time)]
    [] l.kind = "handleCanPlay" ->
         Resume([w EXCEPT !.audio = IF w.store.isPlaying THEN Play(@) ELSE @,
                          !.refs.isTransitioning = FALSE], l.cont)
    [] l.kind = "handleLoadError" ->
         IF w.refs.loadGeneration # l.generation THEN w
         ELSE [w EXCEPT !.ui.error = "Failed to load audio file", !.ui.isLoading = FALSE]
    [] l.kind = "handleLoadedMetadata" ->
         IF w.refs.loadGeneration # l.generation THEN w
         ELSE [w EXCEPT !.audio = SetPos(@, l.time), !.store.currentTime = l.time]
    [] OTHER -> \* handleCanPlayThrough
         IF w.refs.loadGeneration # l.generation THEN w
         ELSE IF l.isPlaying THEN [w EXCEPT !.audio = Play(@)] ELSE w

RECURSIVE RunAll(_, _, _)
RunAll(w, ls, i) == IF i > Len(ls) THEN w ELSE RunAll(RunListener(w, ls[i]), ls, i + 1)

Dispatch(w, ev) ==
  LET ls == w.audio.listeners
      w0 == [w EXCEPT !.audio.listeners = SelectSeq(ls, LAMBDA l : l.ev # ev)]
  IN RunAll(w0, SelectSeq(ls, LAMBDA l : l.ev = ev), 1)

\* ------------------------------------------------------ the debounce timer
\* setTimeout(doSync, 2000), counted in seconds
DebounceDelay == 2

\* clearTimeout of a handle whose timer fired or was cleared does nothing.
clearTimeoutOf(d, ref) ==
  [d EXCEPT !.timers = [h \in DOMAIN @ \ {ref.handle} |-> @[h]]]

\* if (syncTimeoutRef.current) clearTimeout(syncTimeoutRef.current)
clearSyncTimeout(w) ==
  IF w.debounce.syncTimeoutRef # Null
  THEN [w EXCEPT !.debounce = clearTimeoutOf(@, w.debounce.syncTimeoutRef)]
  ELSE w

\* ----------------------------------------- cleanup effect, keyed on currentItem
cleanup(w0, oldItem) ==
  LET w == clearSyncTimeout(w0)
  IN
  IF w.refs.sessionRef # Null /\ w.audio.mounted /\ w.audio.pos > 0
  THEN LET prev == w.refs.prevSessionRef
           tracks == IF prev # Null THEN prev.audioTracks ELSE w.store.audioTracks
           idx == IF prev # Null THEN prev.currentTrackIndex ELSE w.store.currentTrackIndex
           syncTime == IF isMultiTrack(tracks)
                       THEN trackTimeToGlobal(tracks, idx, w.audio.pos)
                       ELSE w.audio.pos
       IN Send(w, "cleanup", IF prev # Null THEN prev.itemId ELSE oldItem,
               w.refs.sessionRef.id, syncTime, now - w.refs.sessionRef.lastSync,
               IF prev # Null THEN prev.episodeId ELSE NoEpisode,
               [tracks |-> IF isMultiTrack(tracks) THEN tracks ELSE <<>>,
                idx |-> idx, pos |-> w.audio.pos])
  ELSE w

\* -------------------------------------------------------------- loadTrack
\* From setError(null) to the await of absApi.getStreamUrl.
loadTrack_getStreamUrl(w, l) ==
  [w EXCEPT !.ui.error = NoError, !.ui.isLoading = TRUE,
            !.refs.loadGeneration = @ + 1,
            !.loads = (@ \ {l}) \cup {[l EXCEPT !.generation = w.refs.loadGeneration + 1,
                                                !.pc = "getStreamUrl"]}]

\* Mutation: the final sync is computed from the store after setCurrentItem.
loadTrack_FromStore(w, item, episode) ==
  LET task == [id |-> w.started, item |-> item, episode |-> episode,
               isPlaying |-> w.store.isPlaying, pc |-> "finalSync", generation |-> 0]
      prev == w.refs.prevSessionRef
      w1 == [w EXCEPT !.loads = @ \cup {task}]
  IN IF prev # Null /\ w.audio.mounted
     THEN LET tracks == w.store.audioTracks
              syncTime == IF isMultiTrack(tracks)
                          THEN trackTimeToGlobal(tracks, w.store.currentTrackIndex, w.audio.pos)
                          ELSE w.audio.pos
          IN Send(w1, "final", w.store.currentItem, prev.sessionId, syncTime,
                  now - prev.lastSync, w.store.currentEpisode,
                  [tracks |-> IF isMultiTrack(tracks) THEN tracks ELSE <<>>,
                   idx |-> w.store.currentTrackIndex, pos |-> w.audio.pos])
     ELSE loadTrack_getStreamUrl(w1, task)

\* The call from the load effect, up to its first await. The closure holds the
\* currentItem, currentEpisode and isPlaying of its render.
loadTrack(w, item, episode) ==
  LET task == [id |-> w.started, item |-> item, episode |-> episode,
               isPlaying |-> w.store.isPlaying, pc |-> "finalSync", generation |-> 0]
      prev == w.refs.prevSessionRef
      w1 == [w EXCEPT !.loads = @ \cup {task}]
  IN IF prev # Null /\ w.audio.mounted
     THEN LET syncTime == IF isMultiTrack(prev.audioTracks)
                          THEN trackTimeToGlobal(prev.audioTracks, prev.currentTrackIndex,
                                                 w.audio.pos)
                          ELSE w.audio.pos
          IN Send(w1, "final", prev.itemId, prev.sessionId, syncTime,
                  now - prev.lastSync, prev.episodeId,
                  [tracks |-> IF isMultiTrack(prev.audioTracks) THEN prev.audioTracks ELSE <<>>,
                   idx |-> prev.currentTrackIndex, pos |-> w.audio.pos])
     ELSE loadTrack_getStreamUrl(w1, task)

\* After the final sync settled (its failure is caught and logged).
loadTrack_afterFinalSync(w, l) ==
  loadTrack_getStreamUrl([w EXCEPT !.refs.prevSessionRef = Null], l)

\* After absApi.getStreamUrl resolved: the server opened session `sid`.
loadTrack_resolved(w, l, initialTime) ==
  LET sid == Len(w.sessions) + 1
      tracks == AudioTracksOf(l.item)
      w1 == [w EXCEPT
               !.sessions = Append(@, [item |-> l.item, episode |-> l.episode,
                                       startedAt |-> now, listened |-> 0,
                                       finals |-> 0, switches |-> 0, track |-> 0]),
               !.store.sessionId = sid,
               !.store.lastSyncTime = now,
               !.refs.sessionRef = [id |-> sid, lastSync |-> now],
               !.refs.prevSessionRef =
                  [itemId |-> l.item, sessionId |-> sid, episodeId |-> l.episode,
                   lastSync |-> now, audioTracks |-> tracks, currentTrackIndex |-> 0],
               !.store.duration = DurationOf(l.item),
               !.store.chapters = ChaptersOf(l.item),
               !.store.audioTracks = tracks]
  IN IF ~w1.audio.mounted THEN [w1 EXCEPT !.loads = @ \ {l}]
     ELSE IF Len(tracks) > 1 /\ l.episode = NoEpisode
     THEN LET loc == findTrackForGlobalTime(tracks, initialTime)
          IN loadAudioTrackInternal(
               [w1 EXCEPT !.loads = (@ \ {l}) \cup {[l EXCEPT !.pc = "loadAudioTrack"]}],
               loc.trackIndex, loc.trackTime, tracks,
               [kind |-> "load", load |-> l.id, time |-> initialTime])
     ELSE LET a1 == SetSrc(w1.audio, StreamOf(l.item))
              ls1 == Append(a1.listeners,
                            [ev |-> "error", kind |-> "handleLoadError",
                             generation |-> l.generation])
              ls2 == IF initialTime > 0
                     THEN Append(ls1, [ev |-> "loadedmetadata", kind |-> "handleLoadedMetadata",
                                       generation |-> l.generation, time |-> initialTime])
                     ELSE ls1
              ls3 == Append(ls2, [ev |-> "canplaythrough", kind |-> "handleCanPlayThrough",
                                  generation |-> l.generation, isPlaying |-> l.isPlaying])
          IN [w1 EXCEPT !.audio = [a1 EXCEPT !.listeners = ls3],
                        !.store.currentTime = IF initialTime > 0 THEN @ ELSE 0,
                        !.ui.isLoading = FALSE,
                        !.loads = @ \ {l}]

\* The catch block of loadTrack.
\* Mutation: the catch leaves the play state alone.
loadTrack_failed_KeepsPlaying(w, l) ==
  [w EXCEPT !.ui.error = "Failed to load audio", !.ui.isLoading = FALSE,
            !.loads = @ \ {l}]

loadTrack_failed(w, l) ==
  [w EXCEPT !.ui.error = "Failed to load audio", !.ui.isLoading = FALSE,
            !.store.isPlaying = FALSE, !.loads = @ \ {l}]

\* ------------------------------------------------------- seekToGlobalTime
\* wasPlaying is history: the store's isPlaying when the seek was called.
seekToGlobalTime(w, globalTime) ==
  IF ~w.audio.mounted THEN w
  ELSE LET clampedTime == Max(0, Min(w.store.duration, globalTime))
           tracks == w.store.audioTracks
       IN IF isMultiTrack(tracks)
          THEN LET loc == findTrackForGlobalTime(tracks, clampedTime)
               IN IF loc.trackIndex # w.store.currentTrackIndex
                  THEN loadAudioTrackInternal([w EXCEPT !.ui.isSeeking = TRUE],
                                              loc.trackIndex, loc.trackTime, tracks,
                                              [kind |-> "seek", time |-> clampedTime,
                                               wasPlaying |-> w.store.isPlaying])
                  ELSE [w EXCEPT !.audio = SetPos(@, loc.trackTime),
                                 !.store.currentTime = clampedTime]
          ELSE [w EXCEPT !.audio = SetPos(@, clampedTime),
                         !.store.currentTime = clampedTime]

\* ------------------------------------------------------------ handleEnded
handleEnded(w) ==
  LET tracks == w.store.audioTracks
      idx == w.store.currentTrackIndex
  IN IF Len(tracks) > 1 /\ idx < Len(tracks) - 1
     THEN LET prev == w.refs.prevSessionRef
              w1 == IF w.refs.sessionRef # Null /\ prev # Null
                    THEN [Send(w, "ended", prev.itemId, w.refs.sessionRef.id,
                               tracks[idx + 1].startOffset + tracks[idx + 1].duration,
                               now - w.refs.sessionRef.lastSync, prev.episodeId,
                               [tracks |-> tracks, idx |-> idx, pos |-> w.audio.pos])
                            EXCEPT !.refs.sessionRef.lastSync = now,
                                   !.refs.prevSessionRef.lastSync = now]
                    ELSE w
          IN loadAudioTrackInternal(w1, idx + 1, 0, tracks, [kind |-> "ended"])
     ELSE [w EXCEPT !.store.isPlaying = FALSE]

\* ------------------------------------------------ handleTimeUpdate, handleSeeked
handleTimeUpdate(w) ==
  IF w.audio.mounted
  THEN [w EXCEPT !.store.currentTime = getGlobalTimeFromAudio(w)]
  ELSE w

handleSeeked(w) ==
  [handleTimeUpdate(w) EXCEPT !.ui.isSeeking = FALSE]

\* ------------------------------------------------------ syncProgress(true)
doSync(w) ==
  LET w2 == Send(w, "periodic", w.store.currentItem, w.refs.sessionRef.id,
                 getGlobalTimeFromAudio(w), now - w.refs.sessionRef.lastSync,
                 w.store.currentEpisode,
                 [tracks |-> IF isMultiTrack(w.store.audioTracks) THEN w.store.audioTracks ELSE <<>>,
                  idx |-> w.store.currentTrackIndex, pos |-> w.audio.pos,
                  switching |-> w.audio.switching, stored |-> w.store.currentTime])
  IN [w2 EXCEPT !.syncs = Append(@, [now |-> now])]

\* Mutation: the retained previous-session record is left as it was.
doSync_resolved_LiveOnly(w, s) ==
  [w EXCEPT !.refs.sessionRef.lastSync = s.now,
            !.store.lastSyncTime = s.now,
            !.syncs = Tail(@)]

doSync_resolved(w, s) ==
  [w EXCEPT !.refs.sessionRef.lastSync = s.now,
            !.refs.prevSessionRef = IF @ = Null THEN @ ELSE [@ EXCEPT !.lastSync = s.now],
            !.store.lastSyncTime = s.now,
            !.syncs = Tail(@)]

\* Mutation: the failure is escalated to the player.
doSync_rejected_Escalates(w, s) ==
  [w EXCEPT !.syncs = Tail(@), !.ui.error = "Playback error", !.store.isPlaying = FALSE]

\* The catch of doSync: console.error, nothing else.
doSync_rejected(w, s) == [w EXCEPT !.syncs = Tail(@)]

\* doSync run by the timer: currentItem, currentEpisode and the
\* getGlobalTimeFromAudio it calls are those of the render that armed it.
doSync_ofTimer(w, timer) ==
  IF w.refs.sessionRef = Null \/ ~w.audio.mounted THEN w
  ELSE
  LET syncTime == IF w.refs.isTransitioning THEN w.store.currentTime
                  ELSE IF isMultiTrack(timer.audioTracks)
                       THEN trackTimeToGlobal(timer.audioTracks, timer.currentTrackIndex,
                                              w.audio.pos)
                       ELSE w.audio.pos
      w2 == Send(w, "debounced", timer.currentItem, w.refs.sessionRef.id,
                 syncTime, now - w.refs.sessionRef.lastSync, timer.currentEpisode,
                 [tracks |-> IF isMultiTrack(timer.audioTracks) THEN timer.audioTracks ELSE <<>>,
                  idx |-> timer.currentTrackIndex, pos |-> w.audio.pos,
                  switching |-> w.audio.switching, stored |-> w.store.currentTime])
  IN [w2 EXCEPT !.syncs = Append(@, [now |-> now])]

\* setTimeout returns a handle that is in use nowhere else.
NewHandle(d) ==
  CHOOSE n \in 0..(Cardinality(DOMAIN d.timers) + 1) :
    /\ n \notin DOMAIN d.timers
    /\ d.syncTimeoutRef # [handle |-> n]
    /\ \A m \in 0..(n - 1) : m \in DOMAIN d.timers \/ d.syncTimeoutRef = [handle |-> m]

\* Mutation: a timer that is pending is left to run and no new one is armed.
syncProgress_Throttle(w, immediate) ==
  IF w.refs.sessionRef = Null \/ ~w.audio.mounted \/ w.store.currentItem = NoItem
  THEN [w EXCEPT !.debounce.last =
          [op |-> "syncProgress", immediate |-> immediate, ran |-> FALSE]]
  ELSE
  IF immediate
  THEN [doSync(clearSyncTimeout(w)) EXCEPT !.debounce.last =
          [op |-> "syncProgress", immediate |-> TRUE, ran |-> TRUE]]
  ELSE IF DOMAIN w.debounce.timers # {}
  THEN [w EXCEPT !.debounce.sinceCall = 0,
                 !.debounce.last =
                    [op |-> "syncProgress", immediate |-> FALSE, ran |-> TRUE]]
  ELSE LET h == NewHandle(w.debounce)
       IN [w EXCEPT
             !.debounce.timers =
                [x \in DOMAIN @ \cup {h} |->
                   IF x = h
                   THEN [age |-> 0, currentItem |-> w.store.currentItem,
                         currentEpisode |-> w.store.currentEpisode,
                         audioTracks |-> w.store.audioTracks,
                         currentTrackIndex |-> w.store.currentTrackIndex]
                   ELSE @[x]],
             !.debounce.syncTimeoutRef = [handle |-> h],
             !.debounce.sinceCall = 0,
             !.debounce.last =
                [op |-> "syncProgress", immediate |-> FALSE, ran |-> TRUE]]

\* syncProgress(immediate).  sinceCall: the seconds since the last call
\* with immediate = false that got past the first line.
syncProgress(w, immediate) ==
  IF w.refs.sessionRef = Null \/ ~w.audio.mounted \/ w.store.currentItem = NoItem
  THEN [w EXCEPT !.debounce.last =
          [op |-> "syncProgress", immediate |-> immediate, ran |-> FALSE]]
  ELSE
  LET w1 == clearSyncTimeout(w)
  IN IF immediate
     THEN [doSync(w1) EXCEPT !.debounce.last =
             [op |-> "syncProgress", immediate |-> TRUE, ran |-> TRUE]]
     ELSE LET h == NewHandle(w1.debounce)
          IN [w1 EXCEPT
                !.debounce.timers =
                   [x \in DOMAIN @ \cup {h} |->
                      IF x = h
                      THEN [age |-> 0, currentItem |-> w.store.currentItem,
                            currentEpisode |-> w.store.currentEpisode,
                            audioTracks |-> w.store.audioTracks,
                            currentTrackIndex |-> w.store.currentTrackIndex]
                      ELSE @[x]],
                !.debounce.syncTimeoutRef = [handle |-> h],
                !.debounce.sinceCall = 0,
                !.debounce.last =
                   [op |-> "syncProgress", immediate |-> FALSE, ran |-> TRUE]]

\* ------------------------------------------------------------------ Init
InitPlayer ==
  /\ store = [currentItem |-> NoItem, currentEpisode |-> NoEpisode, currentTime |-> 0,
              duration |-> 0, sessionId |-> NoSession, lastSyncTime |-> 0,
              chapters |-> <<>>, audioTracks |-> <<>>, currentTrackIndex |-> 0,
              isPlaying |-> FALSE]
  /\ refs = [sessionRef |-> Null, prevSessionRef |-> Null, loadGeneration |-> 0,
             isTransitioning |-> FALSE]
  /\ ui = [error |-> NoError, isLoading |-> FALSE, isSeeking |-> FALSE]
  /\ audio = [mounted |-> FALSE, src |-> Null, pos |-> 0, readyState |-> 0,
              paused |-> TRUE, ended |-> FALSE, failed |-> FALSE,
              switching |-> FALSE, listeners |-> <<>>]
  /\ loads = {}
  /\ started = 0
  /\ syncs = <<>>
  /\ sessions = <<>>
  /\ outbox = <<>>
  /\ interval = 0
  /\ debounce = [syncTimeoutRef |-> Null, timers |-> <<>>,
                 sinceCall |-> DebounceDelay + 1, last |-> NoCall]

\* The player is mounted behind the private route: a user is logged in.
InitLoggedIn ==
  /\ progress = EmptyRecord
  /\ authUser = "u1"
  /\ now = 1
  /\ hist = [op |-> "none"]
  /\ writer = EmptyRecord
  /\ maxMerged = EmptyRecord
  /\ leftBy = [user |-> NoUser, cached |-> FALSE]

\* --------------------------------------------------------------- actions
\* setCurrentItem / setIsPlaying(true), and the effects of the render it causes:
\* the cleanup of the effect keyed on currentItem, the load effect (keyed on
\* currentItem.id), the play/pause effect.
SelectItem(w, item, episode) ==
  LET old == w.store.currentItem
      w1 == [w EXCEPT
               !.started = @ + 1,
               !.store = [@ EXCEPT !.currentItem = item, !.currentEpisode = episode,
                                   !.currentTime = 0, !.duration = 0,
                                   !.sessionId = NoSession, !.lastSyncTime = 0,
                                   !.chapters = <<>>, !.audioTracks = <<>>,
                                   !.currentTrackIndex = 0, !.isPlaying = TRUE],
               !.sessions = IF /\ w.refs.sessionRef # Null
                               /\ item # old
                               /\ item # w.sessions[w.refs.sessionRef.id].item
                            THEN [@ EXCEPT ![w.refs.sessionRef.id].switches = @ + 1]
                            ELSE @]
      w2 == cleanup(w1, old)
      w3 == [w2 EXCEPT !.audio.mounted = TRUE]
      w4 == IF item # old THEN loadTrack(w3, item, episode) ELSE w3
  IN [handlePlayPause(w4) EXCEPT !.interval = 0]

\* Library.playItem
PlayBook(books, limit) ==
  \E item \in books :
    /\ authUser # NoUser
    /\ started < limit
    /\ Commit(SelectItem(World, item, NoEpisode))
    /\ UNCHANGED <<trackVars, handlerVars, storeVars, now>>

\* usePlayerStore().playItem(item, episode)
PlayEpisode(limit) ==
  \E item \in Podcasts :
    /\ authUser # NoUser
    /\ started < limit
    /\ Commit(SelectItem(World, item, EpisodeOf(item)))
    /\ UNCHANGED <<trackVars, handlerVars, storeVars, now>>

FinalSyncDone ==
  \E l \in loads :
    /\ l.pc = "finalSync"
    /\ Commit(loadTrack_afterFinalSync(World, l))
    /\ UNCHANGED <<trackVars, handlerVars, storeVars, now>>

StreamResolved ==
  \E l \in loads :
    /\ l.pc = "getStreamUrl"
    /\ \E initialTime \in SavedTimes(l.item) :
         Commit(Effects(World, loadTrack_resolved(World, l, initialTime), TRUE))
    /\ UNCHANGED <<trackVars, handlerVars, storeVars, now>>

StreamFailed ==
  \E l \in loads :
    /\ l.pc = "getStreamUrl"
    /\ Commit(Effects(World, loadTrack_failed(World, l), FALSE))
    /\ UNCHANGED <<trackVars, handlerVars, storeVars, now>>

\* The element's events. onLoadedMetadata is handleLoadedMetadata.
LoadedMetadata ==
  /\ audio.src # Null /\ audio.readyState = 0 /\ ~audio.failed
  /\ LET w0 == [World EXCEPT !.audio.readyState = 1]
         w1 == IF ~isMultiTrack(w0.store.audioTracks)
               THEN [w0 EXCEPT !.store.duration = w0.audio.src.duration]
               ELSE w0
     IN Commit(Effects(World, Dispatch(w1, "loadedmetadata"), FALSE))
  /\ UNCHANGED <<trackVars, handlerVars, storeVars, now>>

\* canplay: the one-shot listeners and the play/pause effect's handleCanPlay.
CanPlay ==
  /\ audio.src # Null /\ audio.readyState = 1 /\ ~audio.failed
  /\ LET w0 == [World EXCEPT !.audio.readyState = 3, !.audio.switching = FALSE]
         w1 == Dispatch(w0, "canplay")
         w2 == IF store.isPlaying THEN handlePlayPause(w1) ELSE w1
     IN Commit(Effects(World, w2, FALSE))
  /\ UNCHANGED <<trackVars, handlerVars, storeVars, now>>

CanPlayThrough ==
  /\ audio.src # Null /\ audio.readyState = 3 /\ ~audio.failed
  /\ Commit(Effects(World, Dispatch([World EXCEPT !.audio.readyState = 4],
                                    "canplaythrough"), FALSE))
  /\ UNCHANGED <<trackVars, handlerVars, storeVars, now>>

\* error while the source is fetched: onError is handleError.
MediaError ==
  /\ audio.src # Null /\ audio.readyState = 0 /\ ~audio.failed
  /\ LET w0 == [World EXCEPT !.audio.failed = TRUE,
                             !.ui.error = "Playback error", !.ui.isLoading = FALSE,
                             !.store.isPlaying = FALSE]
     IN Commit(Effects(World, Dispatch(w0, "error"), FALSE))
  /\ UNCHANGED <<trackVars, handlerVars, storeVars, now>>

\* Playback moves on by one second; onTimeUpdate is handleTimeUpdate.
Advance ==
  /\ audio.src # Null /\ ~audio.paused /\ audio.readyState >= 3 /\ ~audio.failed
  /\ audio.pos < audio.src.duration
  /\ Commit(handleTimeUpdate(
       [World EXCEPT !.audio.pos = @ + 1,
                     !.audio.ended = (audio.pos + 1 = audio.src.duration)]))
  /\ UNCHANGED <<trackVars, handlerVars, storeVars, now>>

\* timeupdate for another reason: the position was set or reset.
TimeUpdate ==
  /\ audio.src # Null
  /\ Commit(handleTimeUpdate(World))
  /\ UNCHANGED <<trackVars, handlerVars, storeVars, now>>

\* seeked: onSeeked is handleSeeked.
Seeked ==
  /\ audio.src # Null
  /\ Commit(handleSeeked(World))
  /\ UNCHANGED <<trackVars, handlerVars, storeVars, now>>

Ended ==
  /\ audio.ended
  /\ Commit(Effects(World, handleEnded([World EXCEPT !.audio.ended = FALSE]), FALSE))
  /\ UNCHANGED <<trackVars, handlerVars, storeVars, now>>

togglePlay ==
  /\ store.currentItem # NoItem
  /\ Commit(Effects(World, [World EXCEPT !.store.isPlaying = ~@], FALSE))
  /\ UNCHANGED <<trackVars, handlerVars, storeVars, now>>

SeekTargets == {0, 1, 3}

handleProgressSeek ==
  \E time \in SeekTargets :
    /\ audio.mounted
    /\ Len(audio.listeners) + 2 <= MaxListeners
    /\ Commit(Effects(World, seekToGlobalTime(World, time), FALSE))
    /\ UNCHANGED <<trackVars, handlerVars, storeVars, now>>

\* Arrow keys: skip back or forward from the stored time (the code's 10 s and
\* 30 s steps, scaled to the track lengths of the model).
SkipSeconds == {-2, 2}

skip ==
  \E seconds \in SkipSeconds :
    /\ audio.mounted
    /\ Len(audio.listeners) < MaxListeners
    /\ Commit(Effects(World, seekToGlobalTime(World, store.currentTime + seconds), FALSE))
    /\ UNCHANGED <<trackVars, handlerVars, storeVars, now>>

\* The 10 s of the interval, counted in steps of 5 s.
IntervalTicks == 2

\* Mutation: the callback does not look at isPlaying.
IntervalCallback_NoPlayingCheck(w) ==
  IF /\ w.store.currentItem # NoItem /\ w.refs.sessionRef # Null
     /\ w.audio.mounted /\ w.audio.pos > 0
  THEN syncProgress(w, TRUE)
  ELSE w

\* The callback given to setInterval.
IntervalCallback(w) ==
  IF /\ w.store.isPlaying /\ w.store.currentItem # NoItem /\ w.refs.sessionRef # Null
     /\ w.audio.mounted /\ w.audio.pos > 0
  THEN syncProgress(w, TRUE)
  ELSE w

\* 5 s pass without the interval being due.
TimePasses ==
  /\ interval < IntervalTicks
  /\ Commit([World EXCEPT !.interval = @ + 1])
  /\ UNCHANGED <<trackVars, handlerVars, storeVars, now>>

\* The interval is due: the callback runs and the next 10 s begin.
IntervalFires ==
  /\ interval = IntervalTicks
  /\ Len(syncs) < MaxPending
  /\ Commit([IntervalCallback(World) EXCEPT !.interval = 0])
  /\ UNCHANGED <<trackVars, handlerVars, storeVars, now>>

\* The interval firing at any time: the timer left out.
Periodic ==
  /\ store.isPlaying /\ store.currentItem # NoItem /\ refs.sessionRef # Null
  /\ audio.mounted /\ audio.pos > 0
  /\ Len(syncs) < MaxPending
  /\ Commit(syncProgress(World, TRUE))
  /\ UNCHANGED <<trackVars, handlerVars, storeVars, now>>

SyncDone ==
  /\ syncs # <<>>
  /\ Commit(doSync_resolved(World, Head(syncs)))
  /\ UNCHANGED <<trackVars, handlerVars, storeVars, now>>

SyncFailed ==
  /\ syncs # <<>>
  /\ Commit(doSync_rejected(World, Head(syncs)))
  /\ UNCHANGED <<trackVars, handlerVars, storeVars, now>>

\* syncProgress is called by a handler of the current render.
CallSyncProgress ==
  /\ \E immediate \in BOOLEAN :
       /\ immediate => Len(syncs) < MaxPending
       /\ Commit(syncProgress(World, immediate))
  /\ UNCHANGED <<trackVars, handlerVars, storeVars, now>>

\* A second passes in which no timer of syncProgress is due.
SecondPasses ==
  /\ \A h \in DOMAIN debounce.timers : debounce.timers[h].age < DebounceDelay
  /\ debounce.sinceCall <= DebounceDelay
  /\ Commit([World EXCEPT
               !.debounce.timers = [h \in DOMAIN @ |-> [@[h] EXCEPT !.age = @ + 1]],
               !.debounce.sinceCall = @ + 1])
  /\ UNCHANGED <<trackVars, handlerVars, storeVars, now>>

\* A timer of syncProgress is due: its doSync runs.
DebounceFires ==
  /\ Len(syncs) < MaxPending
  /\ \E h \in DOMAIN debounce.timers :
       /\ debounce.timers[h].age = DebounceDelay
       /\ Commit([doSync_ofTimer([World EXCEPT
                                    !.debounce.timers = [x \in DOMAIN @ \ {h} |-> @[x]]],
                                 debounce.timers[h])
                   EXCEPT !.debounce.last = [op |-> "timer", handle |-> h]])
  /\ UNCHANGED <<trackVars, handlerVars, storeVars, now>>

\* Date.now() moves on.
Tick ==
  /\ now < MaxClock
  /\ now' = now + 1
  /\ outbox' = <<>>
  /\ UNCHANGED <<trackVars, handlerVars, storeVars, store, refs, ui, audio, loads, started, syncs, sessions,
                 interval, debounce>>

\* The server answers, the element's events, the periodic sync.
PlayerEvents ==
  \/ FinalSyncDone \/ StreamResolved
  \/ LoadedMetadata \/ CanPlay \/ CanPlayThrough
  \/ Advance \/ Ended
  \/ togglePlay
  \/ Periodic \/ SyncDone

\* Requests and sources that fail, seeking, the other time events.
MoreEvents ==
  \/ StreamFailed \/ MediaError \/ SyncFailed
  \/ TimeUpdate \/ Seeked
  \/ handleProgressSeek

\* ----------------------------------------------------------- specifications
InitCache ==
  /\ InitStore
  /\ InitPlayer
  /\ calc = [tracks |-> <<>>, call |-> NoCall]
  /\ InitHandler
SpecStore == InitCache /\ [][NextStore]_vars

\* The player, the wall clock standing still.
NextPlayer ==
  PlayBook(Books, MaxLoads) \/ PlayEpisode(MaxLoads) \/ PlayerEvents \/ MoreEvents
InitSession ==
  /\ InitLoggedIn
  /\ InitPlayer
  /\ calc = [tracks |-> <<>>, call |-> NoCall]
  /\ InitHandler
SpecPlayer == InitSession /\ [][NextPlayer]_vars

\* Three items selected in a row, where every request succeeds and the user
\* does not seek.
NextSwitch ==
  PlayBook(Shelf, MaxSwitches) \/ PlayEpisode(MaxSwitches) \/ PlayerEvents
SpecSwitch == InitSession /\ [][NextSwitch]_vars

\* The same with the wall clock running, for what is reported as listened time.
\* The track-index functions, called on every track list.
InitTracks ==
  /\ InitStore
  /\ InitPlayer
  /\ calc \in {[tracks |-> tracks, call |-> NoCall] : tracks \in TrackLists}
  /\ InitHandler

NextTracks ==
  \/ CallFindTrackForTime
  \/ CallGetGlobalTime
  \/ CallFindTrackForGlobalTime
  \/ CallTrackTimeToGlobal

SpecTracks == InitTracks /\ [][NextTracks]_vars

\* The chapter functions, called on every chapter list.
InitChapters ==
  /\ InitStore
  /\ InitPlayer
  /\ calc \in {[chapters |-> chapters, call |-> NoCall] : chapters \in ChapterLists}
  /\ InitHandler

NextChapters ==
  \/ CallEnhanceChapters
  \/ CallValidateChapterSeek
  \/ CallFindChapterAtTime
  \/ CallGetAdjacentChapter

SpecChapters == InitChapters /\ [][NextChapters]_vars

\* The same, where a periodic sync can also fail.  A failed sync leaves
\* lastSync behind, so the next one reports the same time again: the failures
\* stop once a session has MaxListened reported.
SyncFailedBounded ==
  /\ \A s \in DOMAIN sessions : sessions[s].listened < MaxListened
  /\ SyncFailed

\* The book and the episode are each selected once, in either order.
Selections == Cardinality(Books \cup Podcasts)

NextLastSync ==
  \/ PlayBook(Books, Selections) \/ PlayEpisode(Selections)
  \/ PlayerEvents \/ SyncFailedBounded \/ Tick
SpecLastSync == InitSession /\ [][NextLastSync]_vars

\* One PlayerErrorHandler, with handleError calls whose retries fail or succeed.
InitRetry ==
  /\ InitStore
  /\ InitPlayer
  /\ calc = [tracks |-> <<>>, call |-> NoCall]
  /\ InitHandler

NextRetry ==
  \/ CallHandleError
  \/ TimerFires
  \/ RetrySucceeds
  \/ RetryFails

SpecRetry == InitRetry /\ [][NextRetry]_vars

\* A book and an episode played against the 10 s interval.
NextTimer ==
  \/ PlayBook(Books, MaxLoads)
  \/ PlayEpisode(MaxLoads)
  \/ FinalSyncDone
  \/ StreamResolved
  \/ LoadedMetadata
  \/ CanPlay
  \/ CanPlayThrough
  \/ Advance
  \/ Ended
  \/ togglePlay
  \/ SyncDone
  \/ SyncFailed
  \/ TimePasses
  \/ IntervalFires

SpecTimer == InitSession /\ [][NextTimer]_vars

\* Seeking in a multi-track book and in an episode.
NextSeek ==
  \/ PlayBook(Books, MaxLoads)
  \/ PlayEpisode(MaxLoads)
  \/ PlayerEvents
  \/ TimeUpdate
  \/ Seeked
  \/ handleProgressSeek
  \/ skip

SpecSeek == InitSession /\ [][NextSeek]_vars

NextSync ==
  PlayBook(Books, MaxLoads) \/ PlayEpisode(MaxLoads) \/ PlayerEvents \/ Tick
SpecSync == InitSession /\ [][NextSync]_vars


\* ================================================================ claims
\* The rule of the claims: the stored entry (null: the empty set) is replaced by
\* the incoming one iff nothing is stored or stored.updatedAt <= incoming.updatedAt.
RuleResult(stored, entry) ==
  IF stored = {} \/ (\A s \in stored : s.updatedAt <= entry.updatedAt) THEN {entry} ELSE stored

\* C5: in updateProgress (single) and in mergeProgress (batch) the incoming entry
\* replaces the stored entry of its key if and only if no entry is stored for the
\* key or the stored updatedAt is <= the incoming updatedAt (equal timestamps
\* overwrite).
C5_MergeRule ==
  /\ hist.op = "update" =>
       getProgress(progress, hist.key) = RuleResult(getProgress(hist.pre, hist.key), hist.entry)
  /\ hist.op = "merge" =>
       \A k \in DOMAIN hist.entries :
         getProgress(progress, k) = RuleResult(getProgress(hist.pre, k), hist.entries[k])

\* C5 witness: an update with the same updatedAt as the stored entry, and another
\* payload, has overwritten it.
C5_Witness ==
  /\ hist.op = "update"
  /\ hist.key \in DOMAIN hist.pre
  /\ hist.pre[hist.key].updatedAt = hist.entry.updatedAt
  /\ hist.pre[hist.key] # hist.entry
  /\ progress[hist.key] = hist.entry

C6_StoredIsMax ==
  /\ DOMAIN progress = DOMAIN maxMerged
  /\ \A k \in DOMAIN progress : progress[k].updatedAt = maxMerged[k]

C6_NeverDecreases ==
  \A k \in DOMAIN progress \cap DOMAIN progress' :
    progress'[k].updatedAt >= progress[k].updatedAt

\* C6: with no intervening clear, the updatedAt stored for a key never decreases
\* and the stored entry carries the largest updatedAt merged for the key so far
\* (A at t=1, B at t=2, A again: B stays stored).
C6_Monotonic == [](C6_StoredIsMax) /\ [][C6_NeverDecreases]_vars

\* C6 witness: after B (newer) was stored, A (older) was merged again and B is
\* still stored.
C6_Witness ==
  /\ hist.op = "update"
  /\ hist.key \in DOMAIN hist.pre
  /\ hist.entry.updatedAt < hist.pre[hist.key].updatedAt
  /\ maxMerged[hist.key] = hist.pre[hist.key].updatedAt
  /\ progress[hist.key] = hist.pre[hist.key]

\* C7: merge is idempotent: applying the entry (or batch) just applied a second
\* time leaves the cache as it is; and an entry strictly older than the stored one
\* is a no-op on the cache, by either path.
C7_Idempotent ==
  /\ hist.op = "update" => updateProgress(progress, hist.key, hist.entry) = progress
  /\ hist.op = "merge" => mergeProgress(progress, hist.entries) = progress
  /\ \A e \in EpisodeProgressEntry :
       (e.id \in DOMAIN progress /\ e.updatedAt < progress[e.id].updatedAt) =>
         /\ updateProgress(progress, e.id, e) = progress
         /\ mergeProgress(progress, Put(EmptyRecord, e.id, e)) = progress

\* C7 witness: the first application of an update changed the cache, and an older
\* entry for the key exists.
C7_Witness ==
  /\ hist.op = "update"
  /\ progress # hist.pre
  /\ progress[hist.key].updatedAt > 1

\* C8 as claimed: merging the entry just merged and any other entry e2 of the same
\* key in the other order gives the same cache, equal updatedAt with different
\* contents included.
C8_Commutative ==
  hist.op = "update" =>
    \A e2 \in EpisodeProgressEntry :
      e2.id = hist.key =>
        updateProgress(progress, e2.id, e2)
          = updateProgress(updateProgress(hist.pre, e2.id, e2), hist.key, hist.entry)

\* C8 amended: merge is commutative for two entries of the same key whose
\* updatedAt differ (or that are equal), by the single and by the batch path.
C8_CommutativeDistinct ==
  /\ hist.op = "update" =>
       \A e2 \in EpisodeProgressEntry :
         (e2.id = hist.key /\ (e2.updatedAt # hist.entry.updatedAt \/ e2 = hist.entry)) =>
           updateProgress(progress, e2.id, e2)
             = updateProgress(updateProgress(hist.pre, e2.id, e2), hist.key, hist.entry)
  /\ hist.op = "merge" =>
       \A ks \in SUBSET EpisodeIds :
         \A b2 \in [ks -> EpisodeProgressEntry] :
           (\A k \in ks \cap DOMAIN hist.entries :
              b2[k].updatedAt # hist.entries[k].updatedAt \/ b2[k] = hist.entries[k]) =>
             mergeProgress(progress, b2)
               = mergeProgress(mergeProgress(hist.pre, b2), hist.entries)

\* C8 witness: an update e1 was applied over a stored entry, and a newer e2 for
\* the same key exists: both orders end with e2.
C8_Witness ==
  /\ hist.op = "update"
  /\ hist.key \in DOMAIN hist.pre
  /\ progress[hist.key] = hist.entry
  /\ hist.pre[hist.key] # hist.entry
  /\ hist.entry.updatedAt < MaxStamp

\* C9: the cache does not leak across user identities: while nobody is logged in
\* (after logout's clear) getProgress is null for every key, and while a user is
\* logged in every stored entry was written during that user's own session.
C9_NoLeak ==
  /\ authUser = NoUser => \A k \in EpisodeIds : getProgress(progress, k) = {}
  /\ authUser # NoUser => \A k \in DOMAIN progress : writer[k] = authUser

\* C9 witness: u1 logged out with entries cached, u2 is logged in and has entries.
C9_Witness ==
  /\ authUser = "u2"
  /\ leftBy.user = "u1"
  /\ leftBy.cached
  /\ DOMAIN progress # {}

\* ------------------------------------------------------------ player claims
\* No loadTrack() is suspended and no listener it added waits for its event
\* (the `error` listener of a source that loaded stays for good).
LoadsSettled ==
  /\ loads = {}
  /\ \A i \in DOMAIN audio.listeners : audio.listeners[i].ev = "error"

\* Every selection started a load and every load opened its session.
AllResolved == started > 1 /\ Len(sessions) = started

\* C1: generation guard. Once the loads of two or more selections have all
\* resolved and settled, the live session id, the retained previous-session
\* context, duration, chapters, track list, current track index, stored current
\* time and the element's source are those of the item selected last: no
\* completion of an earlier load has written over them.
C1_GenerationGuard ==
  (LoadsSettled /\ AllResolved) =>
    /\ sessions[store.sessionId].item = store.currentItem
    /\ refs.sessionRef.id = store.sessionId
    /\ refs.prevSessionRef # Null =>
         /\ refs.prevSessionRef.itemId = store.currentItem
         /\ refs.prevSessionRef.sessionId = store.sessionId
    /\ store.duration = DurationOf(store.currentItem)
    /\ store.chapters = ChaptersOf(store.currentItem)
    /\ store.audioTracks = AudioTracksOf(store.currentItem)
    /\ store.currentTrackIndex < Len(AudioTracksOf(store.currentItem))
    /\ store.currentTime <= DurationOf(store.currentItem)
    /\ audio.src # Null /\ audio.src.url[1] = store.currentItem

\* C2: the final sync loadTrack sends for the retained previous session carries
\* that session's own id, item id and episode id, and its time is the element's
\* position converted with that session's track list and track index; nothing
\* of it comes from the item just selected or from the reset store.
C2_FinalSyncUsesPrevious ==
  \A i \in DOMAIN outbox :
    outbox[i].kind = "final" =>
      LET m == outbox[i]
          s == sessions[m.sessionId]
          tracks == AudioTracksOf(s.item)
      IN /\ m.itemId = s.item
         /\ m.episodeId = s.episode
         /\ m.how.tracks = IF isMultiTrack(tracks) THEN tracks ELSE <<>>
         /\ m.how.idx = s.track
         /\ m.currentTime = IF isMultiTrack(tracks)
                            THEN tracks[s.track + 1].startOffset + m.how.pos
                            ELSE m.how.pos

\* A final sync for a book left on its second track, for another item's load.
C2_Witness ==
  \E i \in DOMAIN outbox :
    /\ outbox[i].kind = "final"
    /\ outbox[i].itemId # store.currentItem
    /\ outbox[i].how.idx > 0
    /\ outbox[i].how.pos > 0
    /\ outbox[i].currentTime # outbox[i].how.pos
    /\ store.audioTracks = <<>>

\* C3: a session that was live while the user selected another item and then
\* a third one, before the second's load resolved, gets exactly one final sync
\* (the cleanup of the effect keyed on currentItem and loadTrack's final sync
\* counted together).
C3_ExactlyOneFinal ==
  \A s \in DOMAIN sessions :
    sessions[s].switches = 2 => sessions[s].finals = 1

\* C4: the timeListened values sent for one session never add up to more than
\* the wall-clock time since the session was started.
C4_NoDoubleCount ==
  \A s \in DOMAIN sessions :
    sessions[s].listened <= now - sessions[s].startedAt

\* While a track switch is in progress every query of the global time returns
\* the time stored in the player store: the periodic sync sends it, and
\* handleTimeUpdate / handleSeeked write it back unchanged; none is computed
\* from the position of the element.
C10_SyncSendsStored ==
  \A i \in DOMAIN outbox :
    (outbox[i].kind = "periodic" /\ outbox[i].how.switching) =>
      outbox[i].currentTime = outbox[i].how.stored
C10_EventsKeepStored ==
  (audio.switching /\ (TimeUpdate \/ Seeked)) => store'.currentTime = store.currentTime
\* C10: from the moment loadAudioTrackInternal swaps the source until canplay
\* fires, every query of the current global time (by the periodic sync, by
\* handleTimeUpdate, by handleSeeked) returns the time stored in the player
\* store, never a time computed from the element's position.
C10_StoredTime == [](C10_SyncSendsStored) /\ [][C10_EventsKeepStored]_vars

\* A periodic sync during a switch, where the element would have given another
\* time.
C10_Witness ==
  \E i \in DOMAIN outbox :
    /\ outbox[i].kind = "periodic"
    /\ outbox[i].how.switching
    /\ outbox[i].currentTime = outbox[i].how.stored
    /\ outbox[i].currentTime #
         trackTimeToGlobal(outbox[i].how.tracks, outbox[i].how.idx, outbox[i].how.pos)

\* The element reports the end of track i of a multi-track item, i < lastIndex,
\* while the store says playing.
EndOfTrack ==
  /\ audio.ended
  /\ store.isPlaying
  /\ Len(store.audioTracks) > 1
  /\ store.currentTrackIndex < Len(store.audioTracks) - 1

\* What the claim expects of the step that handles it: a sync carrying the end
\* offset of track i goes out first, track i+1 is made the element's source and
\* is to be positioned at 0, and its canplay will resume playback.
EndOfTrackHandled ==
  LET tracks == store.audioTracks
      i == store.currentTrackIndex
  IN /\ outbox' # <<>>
     /\ outbox'[1].kind = "ended"
     /\ outbox'[1].currentTime = tracks[i + 1].startOffset + tracks[i + 1].duration
     /\ store'.currentTrackIndex = i + 1
     /\ audio'.src # Null
     /\ audio'.src.url = tracks[i + 2].contentUrl
     /\ audio'.pos = 0
     /\ \E k \in DOMAIN audio'.listeners :
          audio'.listeners[k].kind = "handleMeta" /\ audio'.listeners[k].time = 0
     /\ \E k \in DOMAIN audio'.listeners : audio'.listeners[k].kind = "handleCanPlay"

\* When the new track can play and nobody paused meanwhile, playback resumes.
ResumesOnCanPlay ==
  (CanPlay /\ store.isPlaying /\ refs.isTransitioning) => ~audio'.paused

\* C11: at the natural end of track i (i < lastIndex) of a multi-track item
\* while playing, a SyncProgress with currentTime = startOffset[i] + duration[i]
\* is issued at once, then track i+1 is loaded and positioned at 0, then
\* playback resumes without user action.
C11_EndOfTrackOrder ==
  [][((EndOfTrack /\ Ended) => EndOfTrackHandled) /\ ResumesOnCanPlay]_vars

\* ------------------------------------------------------------------ C12
\* The track whose [startOffset, startOffset + duration) holds t; the last
\* track when t is the total duration.
TrackContaining(tracks, t) ==
  IF \E i \in DOMAIN tracks :
       t >= tracks[i].startOffset /\ t < tracks[i].startOffset + tracks[i].duration
  THEN (CHOOSE i \in DOMAIN tracks :
          t >= tracks[i].startOffset /\ t < tracks[i].startOffset + tracks[i].duration) - 1
  ELSE Len(tracks) - 1

SeekRequests == SeekTargets \cup {store.currentTime + seconds : seconds \in SkipSeconds}

\* One call of seekToGlobalTime(g) on a multi-track item.
SeekStep(g) ==
  /\ audio.mounted
  /\ isMultiTrack(store.audioTracks)
  /\ Commit(Effects(World, seekToGlobalTime(World, g), FALSE))

LastListener(a, kind) ==
  LET ks == {k \in DOMAIN a.listeners : a.listeners[k].kind = kind}
  IN IF ks = {} THEN Null ELSE a.listeners[CHOOSE k \in ks : \A j \in ks : j <= k]

\* What the call leaves behind: on the same track the seek is complete at once;
\* for another track that track's file is loading, with the position and the
\* stored time waiting for loadedmetadata and canplay.
SeekPositions(g) ==
  LET tracks == store.audioTracks
      clamped == Max(0, Min(store.duration, g))
      i == TrackContaining(tracks, clamped)
      rel == clamped - tracks[i + 1].startOffset
  IN /\ store'.currentTrackIndex = i
     /\ IF i = store.currentTrackIndex
        THEN audio'.pos = rel /\ store'.currentTime = clamped
        ELSE /\ audio'.src # Null /\ audio'.src.url = tracks[i + 1].contentUrl
             /\ LastListener(audio', "handleMeta") # Null
             /\ LastListener(audio', "handleMeta").time = rel
             /\ LastListener(audio', "handleCanPlay") # Null
             /\ LastListener(audio', "handleCanPlay").cont.kind = "seek"
             /\ LastListener(audio', "handleCanPlay").cont.time = clamped

\* A seek to another track waits for the events of that track's file.
SeekPending ==
  /\ isMultiTrack(store.audioTracks)
  /\ LastListener(audio, "handleCanPlay") # Null
  /\ LastListener(audio, "handleCanPlay").cont.kind = "seek"

\* loadedmetadata of the new track positions the element.
SeekPositioned ==
  (LoadedMetadata /\ SeekPending /\ LastListener(audio, "handleMeta") # Null)
     => audio'.pos = LastListener(audio, "handleMeta").time

\* canplay of the new track completes the seek. An element left at the very
\* end of its file is the one exception for the position: there play() starts
\* the file again, which is the element's rule for ended playback.
SeekCompleted ==
  LET l == LastListener(audio, "handleCanPlay")
      tracks == store.audioTracks
  IN (CanPlay /\ SeekPending)
       => LET clamped == l.cont.time
              i == TrackContaining(tracks, clamped)
              rel == clamped - tracks[i + 1].startOffset
          IN /\ ~ui'.isSeeking
             /\ store'.currentTrackIndex = i
             /\ store'.currentTime = clamped
             /\ audio'.pos = rel \/ (rel = tracks[i + 1].duration /\ store.isPlaying)

\* C12: Seek(g) on a multi-track item clamps g to [0, totalDuration]; once the
\* seek has completed the current track index is that of the track containing
\* the clamped time, the element position is the clamped time minus that
\* track's start offset, and the stored current time is the clamped time.
C12_SeekLandsOnTrack ==
  [][/\ \A g \in SeekRequests : SeekStep(g) => SeekPositions(g)
     /\ SeekPositioned
     /\ SeekCompleted]_vars

\* ------------------------------------------------------------ C13 .. C16
Located == calc.call.op = "locate" /\ Len(calc.tracks) > 0
Converted == calc.call.op = "toGlobal"

\* toGlobal of the implementation that made the call.
ToGlobalOf(impl, tracks, trackIndex, trackTime) ==
  IF impl = "AudioTrackManager" THEN getGlobalTime(tracks, trackIndex, trackTime)
  ELSE trackTimeToGlobal(tracks, trackIndex, trackTime)

\* C13: on a contiguous, ordered, non-empty track list and for every global
\* time t with 0 <= t < totalDuration, toGlobal applied to locate(t) gives t
\* back, in AudioTrackManager and in the Player's helper functions.
C13_Inverses ==
  (Located /\ calc.call.globalTime >= 0
           /\ calc.call.globalTime < getTotalDuration(calc.tracks))
    => /\ calc.call.result # TypeError
       /\ ToGlobalOf(calc.call.impl, calc.tracks,
                     calc.call.result.trackIndex, calc.call.result.trackTime)
            = calc.call.globalTime

\* AudioTrackManager has located a time inside the third of three tracks.
C13_Witness ==
  /\ Located
  /\ calc.call.impl = "AudioTrackManager"
  /\ Len(calc.tracks) = 3
  /\ calc.call.globalTime = calc.tracks[3].startOffset + 1
  /\ calc.call.globalTime < getTotalDuration(calc.tracks)
  /\ calc.call.result = [trackIndex |-> 2, trackTime |-> 1]

\* C14: locate clamps at both boundaries in every implementation: on a
\* non-empty track list locate(t) for t <= 0 is {trackIndex 0, trackTime 0},
\* and for t at or beyond the end of the last track it is
\* {lastIndex, lastTrack.duration}.
C14_ClampsAtBoundaries ==
  Located =>
    /\ calc.call.globalTime <= 0 =>
         calc.call.result = [trackIndex |-> 0, trackTime |-> 0]
    /\ calc.call.globalTime >= getTotalDuration(calc.tracks) =>
         calc.call.result = [trackIndex |-> Len(calc.tracks) - 1,
                             trackTime |-> calc.tracks[Len(calc.tracks)].duration]

\* C16: toGlobal(index, relativeTime) is tracks[index].startOffset +
\* relativeTime for a valid index, and relativeTime unchanged for an index out
\* of bounds (negative, >= track count, empty list), in every implementation.
C16_ToGlobal ==
  Converted =>
    calc.call.result =
      IF calc.call.trackIndex >= 0 /\ calc.call.trackIndex < Len(calc.tracks)
      THEN calc.tracks[calc.call.trackIndex + 1].startOffset + calc.call.trackTime
      ELSE calc.call.trackTime

\* ------------------------------------------------------------------ C15
SingleTrack(D) == TracksOf(<<D>>)

PassThrough ==
  \A D \in 1..MaxTrackDuration : \A t \in 0..D :
    /\ findTrackForTime(SingleTrack(D), t) = [trackIndex |-> 0, trackTime |-> t]
    /\ findTrackForGlobalTime(SingleTrack(D), t) = [trackIndex |-> 0, trackTime |-> t]
    /\ getGlobalTime(SingleTrack(D), 0, t) = t
    /\ trackTimeToGlobal(SingleTrack(D), 0, t) = t

\* The time a periodic sync reports, read with getGlobalTimeFromAudio while
\* the store holds at most one track.
ReportsElementPosition ==
  \A i \in DOMAIN outbox :
    (outbox[i].kind = "periodic" /\ outbox[i].how.tracks = <<>>) =>
      outbox[i].currentTime = outbox[i].how.pos

\* C15: single-track passthrough: with one track of start offset 0 and
\* duration D, locate(t) = {0, t} for 0 <= t <= D and toGlobal(0, t) = t; and
\* in the Player the global time reported for a single-track or zero-track
\* item always equals the media element's position.
C15_SingleTrackPassthrough == PassThrough /\ ReportsElementPosition

\* ------------------------------------------------------------------ C17
\* The user pauses: isPlaying goes from true to false.
PauseRequested ==
  /\ togglePlay
  /\ store.isPlaying
  /\ refs.sessionRef # Null
  /\ audio.pos > 0

PauseFlushed ==
  /\ audio'.paused
  /\ \E i \in DOMAIN outbox' :
       /\ outbox'[i].kind = "pause"
       /\ outbox'[i].sessionId = refs.sessionRef.id
       /\ outbox'[i].currentTime =
            IF isMultiTrack(store.audioTracks)
            THEN trackTimeToGlobal(store.audioTracks, store.currentTrackIndex, audio.pos)
            ELSE audio.pos

\* C17: flush on pause: whenever the play state changes from playing to paused
\* while a session exists and the position is > 0, the media element is paused
\* and a SyncProgress with the current global time is issued in the same step,
\* whatever the state of the media element.
C17_FlushOnPause == [][PauseRequested => PauseFlushed]_vars

\* ------------------------------------------------------------------ C18
\* Playing an item with a live session, past position 0.
Playing ==
  /\ store.isPlaying
  /\ store.currentItem # NoItem
  /\ refs.sessionRef # Null
  /\ audio.mounted
  /\ audio.pos > 0

PeriodicSent == \E i \in DOMAIN outbox' : outbox'[i].kind = "periodic"

\* When the 10 s are over while playing, a sync is sent.
FiresWhilePlaying == (IntervalFires /\ Playing) => PeriodicSent

\* The 10 s start again early only in a step that sends a sync itself or that
\* interrupts the playing.
RestartsWithSync ==
  (Playing /\ Playing' /\ interval > 0 /\ interval' = 0) => outbox' # <<>>

\* The interval sends nothing while paused.
SilentWhilePaused == PeriodicSent => store.isPlaying

\* C18: periodic floor: while the player is continuously playing an item with
\* a live session and position > 0, a SyncProgress attempt is made every 10
\* seconds; while it is paused the periodic timer never issues a sync.
C18_PeriodicFloor ==
  [][FiresWhilePlaying /\ RestartsWithSync /\ SilentWhilePaused]_vars

\* The interval has just fired while playing and sent its sync.
C18_Witness ==
  /\ store.isPlaying
  /\ interval = 0
  /\ \E i \in DOMAIN outbox :
       /\ outbox[i].kind = "periodic"
       /\ outbox[i].currentTime > 0

\* ------------------------------------------------------------------ C19
\* The rejection of a sync awaited by doSync leaves the player as it was and
\* sends nothing.
FailureDropped ==
  SyncFailed =>
    /\ outbox' = <<>>
    /\ syncs' = Tail(syncs)
    /\ store' = store
    /\ ui' = ui
    /\ audio' = audio
    /\ refs' = refs
    /\ loads' = loads

\* The final sync of the previous session has settled, rejected or not: the
\* load that awaited it goes on to getStreamUrl, and nothing is sent again.
FinalSyncNotBlocking ==
  \A l \in loads :
    (l.pc = "finalSync" /\ Commit(loadTrack_afterFinalSync(World, l))) =>
      /\ \E n \in loads' : n.id = l.id /\ n.pc = "getStreamUrl"
      /\ outbox' = <<>>
      /\ store'.isPlaying = store.isPlaying
      /\ ui'.error = NoError

\* C19: a failed SyncProgress request is logged and dropped: it is never
\* retried, it never changes the play state or sets the error state, and a
\* failed final sync of the previous session does not keep the new load from
\* its StartSession call.
C19_SyncFailureDropped == [][FailureDropped /\ FinalSyncNotBlocking]_vars

\* A load waits for getStreamUrl after the final sync of the live session settled.
C19_Witness ==
  /\ refs.sessionRef # Null
  /\ refs.prevSessionRef = Null
  /\ sessions[refs.sessionRef.id].finals >= 1
  /\ \E l \in loads : l.pc = "getStreamUrl"

\* ------------------------------------------------------------------ C20
ErrorState == ui.error # NoError /\ ~store.isPlaying /\ ~ui.isLoading

\* A getStreamUrl call is made only by the load of an item selection: in the
\* selecting step, or when the final sync that load awaited has settled.
StartSessionOnlyBySelection ==
  \A n \in loads' :
    (n.pc = "getStreamUrl" /\ n \notin loads) =>
      \/ started' = started + 1
      \/ \E l \in loads : l.id = n.id /\ l.pc = "finalSync"

Enhanced == calc.call.op = "enhanceChapters"

\* C21: for every chapter with start < end and every current time t,
\* enhanceChapters gives the completion fraction 0 if t < start, 1 if
\* t >= end (t = end included) and (t - start) / (end - start) otherwise,
\* always within [0, 1].
C21_CompletionFraction ==
  Enhanced =>
    \A i \in DOMAIN calc.chapters :
      LET p == calc.call.result[i].progress
          ch == calc.chapters[i]
          t == calc.call.currentTime
      IN /\ FracEq(p, IF t < ch.start THEN Frac(0, 1)
                      ELSE IF t >= ch.end THEN Frac(1, 1)
                      ELSE Frac(t - ch.start, ch.end - ch.start))
         /\ FracLeq(Frac(0, 1), p)
         /\ FracLeq(p, Frac(1, 1))

\* C22: chapter completion is monotonic: for a fixed chapter and times
\* t1 <= t2 the fraction computed at t1 is <= the fraction computed at t2.
C22_CompletionMonotonic ==
  Enhanced =>
    \A t1 \in ChapterTimes :
      t1 <= calc.call.currentTime =>
        \A i \in DOMAIN calc.chapters :
          FracLeq(enhanceChapters(calc.chapters, t1, <<>>)[i].progress,
                  calc.call.result[i].progress)

\* The index of the chapter whose [start, end) holds t, -1 if none does.
ChapterHolding(chapters, t) ==
  IF \E k \in DOMAIN chapters : chapters[k].start <= t /\ t < chapters[k].end
  THEN (CHOOSE k \in DOMAIN chapters : chapters[k].start <= t /\ t < chapters[k].end) - 1
  ELSE -1

\* C23: getAdjacentChapter: when the current time lies in no chapter, 'next'
\* is the first chapter and 'previous' the last; inside chapter i, 'next' is
\* chapter i+1 or null for the last chapter, 'previous' is chapter i-1 or null
\* for the first.
C23_AdjacentChapter ==
  (calc.call.op = "getAdjacentChapter" /\ Len(calc.chapters) > 0) =>
    LET chapters == calc.chapters
        i == ChapterHolding(chapters, calc.call.currentTime)
        next == calc.call.direction = "next"
    IN calc.call.result =
         IF i = -1 THEN (IF next THEN chapters[1] ELSE chapters[Len(chapters)])
         ELSE IF next THEN (IF i + 1 < Len(chapters) THEN chapters[i + 2] ELSE Null)
         ELSE (IF i > 0 THEN chapters[i] ELSE Null)

\* 'next' from inside the first of two chapters gave the second; the list has
\* a gap, so some times lie in no chapter.
C23_Witness ==
  /\ calc.call.op = "getAdjacentChapter"
  /\ Len(calc.chapters) = 2
  /\ calc.chapters[1].end < calc.chapters[2].start
  /\ calc.call.direction = "next"
  /\ ChapterHolding(calc.chapters, calc.call.currentTime) = 0
  /\ calc.call.result = calc.chapters[2]

\* C24: validateChapterSeek(chapter, requested) is
\* max(chapter.start, min(chapter.end - 0.1, requested)), chapter.start when
\* no time is requested; the result r satisfies start <= r < end, so
\* findChapterAtTime(r) is that same chapter and never the next one.
C24_ChapterSeekClamp ==
  calc.call.op = "validateChapterSeek" =>
    LET chapter == calc.chapters[calc.call.chapter]
        requested == calc.call.requested
        r == calc.call.result
    IN /\ r = IF requested = <<>> THEN chapter.start
              ELSE Max(chapter.start, Min(chapter.end - BufferTime, requested[1]))
       /\ chapter.start <= r
       /\ r < chapter.end
       /\ findChapterAtTime(calc.chapters, r) = chapter

\* A time past the end of the first of two adjoining chapters was requested
\* and the result stayed inside the first.
C24_Witness ==
  /\ calc.call.op = "validateChapterSeek"
  /\ Len(calc.chapters) = 2
  /\ calc.call.chapter = 1
  /\ calc.chapters[1].end = calc.chapters[2].start
  /\ calc.call.requested # <<>>
  /\ calc.call.requested[1] >= calc.chapters[1].end
  /\ calc.call.result < calc.chapters[1].end

\* ------------------------------------------------------------------ C25
\* The last step was handleError with a non-retryable error.
NonRetryableHandled ==
  handler.last.op = "handleError" /\ ~handler.last.error.retryable

\* After it the call is rejected with that error, holds no timer, and the
\* key of the error has no retry counter, no stored timer and no pending one.
ThrownAndCleared ==
  NonRetryableHandled =>
    LET error == handler.last.error
        key == errorKey(error)
        call == handler.calls[handler.last.call]
    IN /\ call.status = "rejected"
       /\ call.thrown = <<error>>
       /\ call.timer = NoTimer
       /\ key \notin DOMAIN handler.retryCount
       /\ key \notin DOMAIN handler.retryTimeouts
       /\ \A d \in DOMAIN handler.calls :
            handler.calls[d].status = "scheduled" => handler.calls[d].timer.key # key

\* handleError with a non-retryable error invokes no retryFn: no call's
\* count of invocations changes, and a call made with it starts and stays at 0.
NoRetryFn ==
  (handler' # handler /\ handler'.last.op = "handleError" /\ ~handler'.last.error.retryable) =>
    \A c \in DOMAIN handler'.calls :
      handler'.calls[c].invoked = IF c \in DOMAIN handler.calls
                                  THEN handler.calls[c].invoked
                                  ELSE 0

\* C25: handleError with a non-retryable error bypasses backoff: retryFn is
\* not invoked and no timer is scheduled, the error is thrown at once, and
\* the retry counter and the pending timer stored for the error's key are
\* cleared.
C25_NonRetryableBypass == []ThrownAndCleared /\ [][NoRetryFn]_vars

\* A call made with a non-retryable error while another call's retry timer
\* for the same key was pending: that timer was cleared.
C25_Witness ==
  /\ NonRetryableHandled
  /\ handler.calls[handler.last.call].invoked = 0
  /\ \E d \in DOMAIN handler.calls :
       /\ d # handler.last.call
       /\ handler.calls[d].status = "cancelled"
       /\ handler.calls[d].timer.key = errorKey(handler.last.error)

\* ------------------------------------------------------------------ C26
\* C26: retries are bounded: a handleError call that starts with no retry
\* counter stored invokes retryFn at most maxRetries times in total, whatever
\* errors the retries fail with, and when it gives up it throws the last
\* error.
C26_RetriesBounded ==
  \A c \in DOMAIN handler.calls :
    handler.calls[c].fresh =>
      /\ handler.calls[c].invoked <= MaxRetries
      /\ handler.calls[c].status = "rejected" =>
           handler.calls[c].thrown = <<handler.calls[c].error>>

\* ------------------------------------------------------------ C27, C28
\* The orders in which the pairs of a batch can be taken.
Orders(ks) ==
  {order \in [1..Cardinality(ks) -> ks] :
     \A i, j \in DOMAIN order : i # j => order[i] # order[j]}

\* updateProgress(key, entry) called for the pairs of the batch from the i-th
\* of the order on.
RECURSIVE UpdateEach(_, _, _, _)
UpdateEach(p, entries, order, i) ==
  IF i > Len(order) THEN p
  ELSE UpdateEach(updateProgress(p, order[i], entries[order[i]]), entries, order, i + 1)

Merged == hist.op = "merge"
Updated == hist.op = "update"

\* C27: the two merge paths are equivalent: from any cache state,
\* mergeProgress(entries) gives the cache that calling updateProgress(key,
\* entry) once for each pair of the batch gives, in any order of the pairs.
C27_MergePathsEquivalent ==
  Merged =>
    \A order \in Orders(DOMAIN hist.entries) :
      progress = UpdateEach(hist.pre, hist.entries, order, 1)

\* A batch of two pairs merged into a cache that stored both keys: one pair
\* had the stored timestamp and another content, the other was older.
C27_Witness ==
  /\ Merged
  /\ Cardinality(DOMAIN hist.entries) = 2
  /\ DOMAIN hist.entries \subseteq DOMAIN hist.pre
  /\ \E k \in DOMAIN hist.entries :
       /\ hist.pre[k].updatedAt = hist.entries[k].updatedAt
       /\ hist.pre[k] # hist.entries[k]
       /\ progress[k] = hist.entries[k]
  /\ \E k \in DOMAIN hist.entries :
       /\ hist.pre[k].updatedAt > hist.entries[k].updatedAt
       /\ progress[k] = hist.pre[k]

\* The keys a cache operation was given.
OwnKeys ==
  IF Merged THEN DOMAIN hist.entries
  ELSE IF Updated THEN {hist.key}
  ELSE {}

\* An updateProgress given an entry older than the stored one.
StaleUpdate ==
  /\ Updated
  /\ hist.key \in DOMAIN hist.pre
  /\ hist.pre[hist.key].updatedAt > hist.entry.updatedAt

\* C28: merges touch only their own keys: mergeProgress leaves every stored
\* entry whose key is not in the batch as it was, updateProgress(k, e) leaves
\* every entry with another key as it was, and an updateProgress rejected as
\* stale leaves the whole cache as it was.
C28_OwnKeysOnly ==
  /\ (Merged \/ Updated) =>
       /\ DOMAIN progress \ OwnKeys = DOMAIN hist.pre \ OwnKeys
       /\ \A k \in DOMAIN hist.pre \ OwnKeys : progress[k] = hist.pre[k]
  /\ StaleUpdate => progress = hist.pre

\* A stale updateProgress on one key while another key was stored.
C28_Witness ==
  /\ StaleUpdate
  /\ DOMAIN hist.pre \ {hist.key} # {}
  /\ progress = hist.pre

\* ------------------------------------------------------------------ C29
\* seekToGlobalTime(g) on a multi-track item, for a time in another track
\* than the current one.
SeekToOtherTrack(g) ==
  /\ SeekStep(g)
  /\ TrackContaining(store.audioTracks, Max(0, Min(store.duration, g)))
       # store.currentTrackIndex

\* The call pauses the element, sets the source of the new track and loads
\* it, and leaves the position to loadedmetadata and the resume to canplay.
SeekSwapsSource(g) ==
  LET tracks == store.audioTracks
      clamped == Max(0, Min(store.duration, g))
      i == TrackContaining(tracks, clamped)
  IN /\ audio'.paused
     /\ audio'.src # Null /\ audio'.src.url = tracks[i + 1].contentUrl
     /\ audio'.readyState = 0
     /\ LastListener(audio', "handleMeta") # Null
     /\ LastListener(audio', "handleMeta").time = clamped - tracks[i + 1].startOffset
     /\ LastListener(audio', "handleCanPlay") # Null
     /\ LastListener(audio', "handleCanPlay").cont.kind = "seek"
     /\ LastListener(audio', "handleCanPlay").cont.wasPlaying = store.isPlaying

\* loadedmetadata of the new track sets the position; playback has not resumed.
SeekSetsPosition ==
  (LoadedMetadata /\ SeekPending /\ LastListener(audio, "handleMeta") # Null)
     => /\ audio'.pos = LastListener(audio, "handleMeta").time
        /\ audio'.paused

\* canplay of the new track resumes playback if and only if the session was
\* playing when the seek was called.
SeekResumes ==
  (CanPlay /\ SeekPending)
     => (~audio'.paused <=> LastListener(audio, "handleCanPlay").cont.wasPlaying)

\* C29: a seek into a different track pauses the element, swaps the source,
\* loads it, sets the position to the track-relative time once the metadata is
\* there, and then resumes playback if and only if the session was playing
\* before the seek started, whatever play/pause toggles happen in between.
C29_SeekSwitchOrder ==
  [][/\ \A g \in SeekRequests : SeekToOtherTrack(g) => SeekSwapsSource(g)
     /\ SeekSetsPosition
     /\ SeekResumes]_vars

\* ------------------------------------------------------------------ C30
\* The answer to a periodic sync sets lastSync to the time that sync was
\* started, on the live session record and on the retained one if there is one.
LastSyncOnBoth ==
  SyncDone =>
    /\ refs'.sessionRef.lastSync = Head(syncs).now
    /\ refs.prevSessionRef # Null =>
         /\ refs'.prevSessionRef # Null
         /\ refs'.prevSessionRef.lastSync = Head(syncs).now

\* A failed periodic sync leaves both records as they were.
LastSyncKept ==
  SyncFailed => refs'.sessionRef = refs.sessionRef /\ refs'.prevSessionRef = refs.prevSessionRef

\* The retained record is that of the live session and holds its lastSync.
RecordsAgree ==
  (refs.sessionRef # Null /\ refs.prevSessionRef # Null) =>
    /\ refs.prevSessionRef.sessionId = refs.sessionRef.id
    /\ refs.prevSessionRef.lastSync = refs.sessionRef.lastSync

\* C30: on a successful periodic sync the last-sync time is set to the time
\* the sync was started on both the live session record and, if present, the
\* retained previous-session record, so that the two records always hold the
\* same last-sync time for the same session; on a failed sync neither changes.
C30_LastSyncOnBothRecords == []RecordsAgree /\ [][LastSyncOnBoth /\ LastSyncKept]_vars

\* A sync started before the live session was established has been answered:
\* both records hold the time that sync was started.
C30_Witness ==
  /\ refs.sessionRef # Null
  /\ refs.prevSessionRef # Null
  /\ syncs = <<>>
  /\ refs.prevSessionRef.lastSync = refs.sessionRef.lastSync
  /\ refs.sessionRef.lastSync < sessions[refs.sessionRef.id].startedAt

\* ---------------------------------------------------------------------
\* Two chapters of ten minutes each, and every tenth second of a
\* playback through them.
TwoChapters ==
  <<[id |-> 0, start |-> 0, end |-> 600, title |-> "Ch1"],
    [id |-> 1, start |-> 600, end |-> 1200, title |-> "Ch2"]>>

PlaybackTimes == {t \in 0 .. (TwoChapters[2].end + 10) : t % 10 = 0}

InitTwoChapters ==
  /\ InitStore
  /\ InitPlayer
  /\ calc = [chapters |-> TwoChapters, call |-> NoCall]
  /\ InitHandler

EnhanceDuringPlayback ==
  /\ \E currentTime \in PlaybackTimes, audioTracks \in {<<>>, AudioTracksOf("P")} :
       calc' = [calc EXCEPT !.call =
                  [op |-> "enhanceChapters", currentTime |-> currentTime,
                   result |-> enhanceChapters(calc.chapters, currentTime, audioTracks)]]
  /\ UNCHANGED <<storeVars, now, playerVars, handlerVars>>

FindDuringPlayback ==
  /\ \E time \in PlaybackTimes :
       calc' = [calc EXCEPT !.call =
                  [op |-> "findChapterAtTime", time |-> time,
                   result |-> findChapterAtTime(calc.chapters, time)]]
  /\ UNCHANGED <<storeVars, now, playerVars, handlerVars>>

NextTwoChapters ==
  \/ EnhanceDuringPlayback
  \/ FindDuringPlayback

SpecTwoChapters == InitTwoChapters /\ [][NextTwoChapters]_vars

\* C32: a chapter is marked completed exactly when its completion
\* fraction is at least 0.95.  With chapters [0,600) and [600,1200) at
\* time 900, findChapterAtTime returns the second chapter, the first has
\* completion 1 and is completed, the second has completion 0.5 and is
\* not completed.
C32_CompletedAt95Percent ==
  /\ calc.call.op = "enhanceChapters" =>
       /\ \A i \in DOMAIN calc.call.result :
            calc.call.result[i].isCompleted
              <=> FracLeq(Frac(95, 100), calc.call.result[i].progress)
       /\ calc.call.currentTime = 900 =>
            /\ FracEq(calc.call.result[1].progress, Frac(1, 1))
            /\ calc.call.result[1].isCompleted
            /\ FracEq(calc.call.result[2].progress, Frac(1, 2))
            /\ ~calc.call.result[2].isCompleted
  /\ (calc.call.op = "findChapterAtTime" /\ calc.call.time = 900) =>
       calc.call.result = TwoChapters[2]

\* The first chapter is exactly 95 % through and is completed.
C32_Witness ==
  /\ calc.call.op = "enhanceChapters"
  /\ calc.call.currentTime = 570
  /\ calc.call.result[1].isCompleted
  /\ FracEq(calc.call.result[1].progress, Frac(95, 100))

\* ---------------------------------------------------------------------
\* Track lists that are contiguous and ordered, where the server may
\* also report a file of duration 0.
FileDurationLists == UNION {[1..n -> 0..MaxTrackDuration] : n \in 0..MaxTracks}
FileTrackLists == {TracksOf(ds) : ds \in FileDurationLists}

Contiguous(tracks) ==
  \A i \in 1..(Len(tracks) - 1) :
    tracks[i + 1].startOffset = tracks[i].startOffset + tracks[i].duration

InitFileTracks ==
  /\ InitStore
  /\ InitPlayer
  /\ calc \in {[tracks |-> tracks, call |-> NoCall] : tracks \in FileTrackLists}
  /\ InitHandler

SpecFileTracks == InitFileTracks /\ [][NextTracks]_vars

\* C34: for every contiguous, ordered, non-empty track list and every
\* global time t >= 0, AudioTrackManager.findTrackForTime (binary search)
\* returns the same {trackIndex, trackTime} as the Player's
\* findTrackForGlobalTime (linear scan).
C34_ImplementationsAgree ==
  (Located /\ Contiguous(calc.tracks) /\ calc.call.globalTime >= 0) =>
    /\ calc.call.result = findTrackForTime(calc.tracks, calc.call.globalTime)
    /\ calc.call.result = findTrackForGlobalTime(calc.tracks, calc.call.globalTime)

\* The same for track lists in which every file has a positive duration.
C34_AgreeOnPositiveDurations ==
  (\A i \in DOMAIN calc.tracks : calc.tracks[i].duration > 0) => C34_ImplementationsAgree

\* ---------------------------------------------------------------------
\* One PlayerErrorHandler handling retryable errors of two kinds, with and
\* without a track-index context.
ContextErrors ==
  {[type |-> "playback_error", retryable |-> TRUE, context |-> <<>>],
   [type |-> "playback_error", retryable |-> TRUE, context |-> <<[trackIndex |-> 0]>>],
   [type |-> "network_error", retryable |-> TRUE, context |-> <<[trackIndex |-> 1]>>]}

\* handleError(error, retryFn) is called with one of these errors.
CallHandleContextError ==
  /\ Len(handler.calls) < MaxCalls
  /\ \E error \in ContextErrors :
       LET c == Len(handler.calls) + 1
           call == [error |-> error,
                    fresh |-> DOMAIN handler.retryCount = {},
                    status |-> "called", thrown |-> <<>>, timer |-> NoTimer,
                    invoked |-> 0]
       IN handler' = handleError([handler EXCEPT !.calls = Append(@, call)], c, error)
  /\ UNCHANGED <<storeVars, now, playerVars, trackVars>>

\* retryFn() rejects with one of these errors.
RetryFailsInContext ==
  /\ \E c \in DOMAIN handler.calls, retryError \in ContextErrors :
       /\ handler.calls[c].status = "retrying"
       /\ handler' = handleError(handler, c, retryError)
  /\ UNCHANGED <<storeVars, now, playerVars, trackVars>>

NextContexts ==
  \/ CallHandleContextError
  \/ TimerFires
  \/ RetrySucceeds
  \/ RetryFailsInContext

SpecContexts == InitRetry /\ [][NextContexts]_vars

\* The (kind, context) of the error a call is handling, its retry counter,
\* and the call that took the last step.
KindAndContext(c) == <<handler.calls[c].error.type, handler.calls[c].error.context>>
ActorKindAndContext ==
  <<handler'.calls[handler'.last.call].error.type,
    handler'.calls[handler'.last.call].error.context>>
CounterOf(h, key) == IF key \in DOMAIN h.retryCount THEN h.retryCount[key] ELSE 0
HandlerStep == handler' # handler /\ handler'.last.op # "none"

\* A step taken for one (kind, context) cancels no pending timer of another.
OtherTimersKept ==
  HandlerStep =>
    \A c \in DOMAIN handler.calls :
      (/\ c # handler'.last.call
       /\ handler.calls[c].status = "scheduled"
       /\ handler'.calls[c].status = "cancelled")
      => KindAndContext(c) = ActorKindAndContext

\* A step taken for one (kind, context) leaves the retry counter of every
\* pending call of another (kind, context) as it was.
OtherBudgetsKept ==
  HandlerStep =>
    \A c \in DOMAIN handler.calls :
      (/\ c # handler'.last.call
       /\ handler.calls[c].status \in {"scheduled", "retrying"}
       /\ KindAndContext(c) # ActorKindAndContext)
      => CounterOf(handler', handler.calls[c].timer.key)
           = CounterOf(handler, handler.calls[c].timer.key)

OneTimerPerKey ==
  \A c1, c2 \in DOMAIN handler.calls :
    (/\ c1 # c2
     /\ handler.calls[c1].status = "scheduled"
     /\ handler.calls[c2].status = "scheduled")
    => KindAndContext(c1) # KindAndContext(c2)

\* C33: retry state is keyed by (error kind, context): failures of
\* different kinds or different track-index contexts (track index 0 versus
\* no context included) have independent retry counters and timers, so
\* handling one never cancels the other's pending timer nor consumes its
\* retry budget, and at most one retry timer is pending per key.
C33_IndependentRetryState ==
  []OneTimerPerKey /\ [][OtherTimersKept /\ OtherBudgetsKept]_vars

\* ---------------------------------------------------------------------
\* The same handler where every timer that stays armed fires and every
\* retryFn() that was started settles, by resolving or by rejecting.
SpecRetryFair ==
  /\ InitRetry
  /\ [][NextRetry]_vars
  /\ WF_vars(TimerFires)
  /\ WF_vars(RetrySucceeds \/ RetryFails)

Settled(c) ==
  c \in DOMAIN handler.calls /\ handler.calls[c].status \in {"resolved", "rejected"}

\* C39: every handleError call eventually settles (its promise resolves or
\* rejects) when retryFn always settles, also when a second handleError
\* call for the same key arrives while the retry timer of the first is
\* still pending.
C39_EveryCallSettles ==
  \A c \in 1..MaxCalls : (c \in DOMAIN handler.calls) ~> Settled(c)

\* A call whose timer was cleared by a later call for the same key.
TimerCleared ==
  \E c \in DOMAIN handler.calls : handler.calls[c].status = "cancelled"

\* Once a timer is cleared, its call never settles.
C39_ClearedNeverSettles ==
  [][\A c \in DOMAIN handler.calls :
       handler.calls[c].status = "cancelled" => handler'.calls[c] = handler.calls[c]]_vars

\* ---------------------------------------------------------------------
\* The player with syncProgress called at any time, immediate or not, and
\* the seconds of its 2 s timer.
NextDebounce ==
  \/ PlayBook(Books, Selections)
  \/ PlayEpisode(Selections)
  \/ PlayerEvents
  \/ CallSyncProgress
  \/ SecondPasses
  \/ DebounceFires

SpecDebounce == InitSession /\ [][NextDebounce]_vars

PendingTimers == DOMAIN debounce.timers

\* C31: the debounce timer is single-slot: at most one timer of
\* syncProgress is pending; after a call with immediate = false the one
\* pending timer is the new one, which fires 2 seconds after that call;
\* after a call with immediate = true no timer is pending, so no earlier
\* debounced sync fires afterwards.
C31_DebounceSingleSlot ==
  /\ Cardinality(PendingTimers) <= 1
  /\ (debounce.last.op = "syncProgress" /\ ~debounce.last.immediate /\ debounce.last.ran) =>
       /\ PendingTimers = {debounce.syncTimeoutRef.handle}
       /\ debounce.timers[debounce.syncTimeoutRef.handle].age = 0
  /\ (debounce.last.op = "syncProgress" /\ debounce.last.immediate) =>
       PendingTimers = {}
  /\ debounce.last.op = "timer" => debounce.sinceCall = DebounceDelay

\* The second timer armed has fired and sent its sync.
C31_Witness ==
  /\ debounce.last = [op |-> "timer", handle |-> 1]
  /\ outbox # <<>>
  /\ outbox[1].kind = "debounced"

\* C35: every SyncProgress request sent with session id S carries a
\* currentTime that is a position on the global timeline of S's own item,
\* computed with S's track list: never a track-relative position, nor one
\* converted with the tracks of another item (in particular not after
\* setCurrentItem has reset the store's track list and index, nor during a
\* track switch, where the stored global time is sent).
C35_SyncTimeIsGlobalOfSession ==
  \A i \in DOMAIN outbox :
    LET m == outbox[i]
        tracks == AudioTracksOf(sessions[m.sessionId].item)
    IN IF m.kind \in {"periodic", "debounced"} /\ m.how.switching
       THEN m.currentTime = m.how.stored
       ELSE /\ m.how.tracks = IF isMultiTrack(tracks) THEN tracks ELSE <<>>
            /\ m.currentTime = IF isMultiTrack(tracks)
                               THEN tracks[m.how.idx + 1].startOffset + m.how.pos
                               ELSE m.how.pos

\* ---------------------------------------------------------------------
\* The player where every request is answered, the fetch of a source ends
\* in loadedmetadata or in an error, and an element that has its metadata
\* becomes playable.
SpecPlayerFair ==
  /\ InitSession
  /\ [][NextPlayer]_vars
  /\ WF_vars(FinalSyncDone)
  /\ WF_vars(StreamResolved \/ StreamFailed)
  /\ WF_vars(LoadedMetadata \/ MediaError)
  /\ WF_vars(CanPlay)
  /\ WF_vars(CanPlayThrough)
  /\ WF_vars(SyncDone \/ SyncFailed)

\* loadAudioTrackInternal has set isTransitioningTrackRef; its promise, which
\* the seek or the load awaits, is pending.
Transitioning == refs.isTransitioning
AwaitingTrack ==
  \E i \in DOMAIN audio.listeners : audio.listeners[i].kind = "handleCanPlay"

\* The flag is set while the file of a single-track item is playing.
FlagOverSingleTrack ==
  /\ refs.isTransitioning
  /\ audio.src # Null /\ ~audio.paused
  /\ ~isMultiTrack(AudioTracksOf(audio.src.url[1]))

\* C36: a track switch always ends: whenever loadAudioTrackInternal has set
\* the transitioning flag, the flag is eventually cleared and the seek or
\* load that awaits the switch eventually resumes, also when the new track
\* never becomes playable (media error) or a new item is loaded during the
\* switch; the flag is never left set while the single-track stream of
\* another item is playing.
C36_TrackSwitchEnds ==
  /\ Transitioning ~> ~Transitioning
  /\ AwaitingTrack ~> ~AwaitingTrack
  /\ []~FlagOverSingleTrack

\* The element plays although the store says paused.
PlaysWhilePaused == ~store.isPlaying /\ audio.src # Null /\ ~audio.paused /\ ~audio.ended

\* While the store says paused, an element that is paused does not start.
StaysPaused ==
  (~store.isPlaying /\ ~store'.isPlaying /\ audio.paused) => audio'.paused

\* C37: when the user pauses at any moment, also while the element is
\* buffering with readyState < 3, the element is eventually paused and does
\* not keep playing audio while the store says paused.
C37_PauseStopsElement ==
  /\ PlaysWhilePaused ~> ~PlaysWhilePaused
  /\ [][StaysPaused]_vars

\* ---------------------------------------------------------------------
\* A podcast with two episodes: EpisodeRecommendations lists the episodes
\* of the podcast being played, except the current one.
Episodes == {"ep1", "ep2"}

\* handlePlayEpisode(ep): playItem({id: currentItem.id, ...}, {id: ep.id, ...})
\* and setIsPlaying(true).
handlePlayEpisode(limit) ==
  /\ store.currentItem \in Podcasts /\ store.currentEpisode # NoEpisode
  /\ started < limit
  /\ \E ep \in Episodes \ {store.currentEpisode} :
       Commit(SelectItem(World, store.currentItem, ep))
  /\ UNCHANGED <<trackVars, handlerVars, storeVars, now>>

NextEpisodes ==
  \/ PlayBook(Books, MaxLoads)
  \/ PlayEpisode(MaxLoads)
  \/ handlePlayEpisode(MaxLoads)
  \/ PlayerEvents

SpecEpisodes == InitSession /\ [][NextEpisodes]_vars

\* The (item, episode) pair selected for playback changes.
PairChanges ==
  /\ store'.currentItem # NoItem
  /\ <<store'.currentItem, store'.currentEpisode>>
       # <<store.currentItem, store.currentEpisode>>

\* loadTrack is called for the new pair; it sends the final sync of the
\* previous session, if one is retained, and goes on to getStreamUrl.
LoadInitiated ==
  /\ \E l \in loads' :
       /\ l.id = started'
       /\ l.item = store'.currentItem
       /\ l.episode = store'.currentEpisode
  /\ (refs.prevSessionRef # Null /\ audio.mounted) =>
       \E i \in DOMAIN outbox' :
         /\ outbox'[i].kind = "final"
         /\ outbox'[i].sessionId = refs.prevSessionRef.sessionId

\* C38: whenever the (item, episode) pair selected for playback changes,
\* also when only the episode changes within the same podcast item, a Load
\* is initiated for the new pair: the previous session gets its final sync
\* and StartSession is called with the new episode id.
C38_PairChangeLoads == [][PairChanges => LoadInitiated]_vars


\* ---------------------------------------------------------------------
\* A multi-file book and a book played as one stream, selected in any
\* order, each load resolving whenever the server answers.
NextStreams ==
  \/ PlayBook({"P", "H"}, MaxLoads)
  \/ PlayerEvents

SpecStreams == InitSession /\ [][NextStreams]_vars

\* C40: in every reachable state of the player (after item switches, track
\* switches, natural track ends and racing loads) the stored current track
\* index is a valid index into the stored track list whenever that list has
\* more than one track, and it is 0 when the list is empty.
C40_TrackIndexValid ==
  /\ Len(store.audioTracks) > 1 =>
       (store.currentTrackIndex >= 0 /\ store.currentTrackIndex < Len(store.audioTracks))
  /\ store.audioTracks = <<>> => store.currentTrackIndex = 0
====
